---------------------------- MODULE Spec2Model ----------------------------
(***************************************************************************)
(* Session / registry / listener core of the C2 server                     *)
(* (src/server/server.py, src/server/session_manager.py,                   *)
(* src/server/session.py) together with the peer side of one connection    *)
(* (src/client/client.py main_loop, or an arbitrary peer).                  *)
(*                                                                         *)
(* One thread per definition group: the connection listener, one client    *)
(* handler per accepted connection, the main thread (operator interface    *)
(* followed by the shutdown sequence), and the peers.  Each action is one  *)
(* atomic step of one thread: a registry call is atomic (it runs under the *)
(* SessionManager lock), a blocking call is one step that is enabled when   *)
(* the call can return.                                                     *)
(***************************************************************************)
EXTENDS Integers, Sequences, FiniteSets, TLC

\* ------------------------------------------------------------------ bounds
\* Number of connections the peers open over the run.
MaxConns == 2
\* Number of commands the operator enqueues over the run.
MaxCmds == 2

\* config.MAX_CLIENTS (50 in config.py), scaled so that the capacity
\* branch of the listener is reached with MaxConns connections.
MAX_CLIENTS == 1
\* config.TLS_ENABLED: main() builds an ssl_context and hands it to the listener.
TLS_ENABLED == TRUE

Handlers == 1..MaxConns
NoHandler == 0
None == "None"
ClientIds == {"HOST-a", "HOST-b"}
\* generate_session_id: "SESSION-" followed by a timestamp and four random hex
\* digits.  The server never inspects an id; the draws are named after the
\* connection they are made for (draws that collide are not followed here).
SessionIds == {"SESSION-" \o ToString(h) : h \in Handlers}
\* The operator's command strings.  The server and the client only copy a
\* command, so the i-th command put on a session's queue is named "c<i>".
Cmd(i) == "c" \o ToString(i)
Commands == {Cmd(i) : i \in 1..MaxCmds}

\* ------------------------------------------------------------------ frames
\* What one length-prefixed frame decodes to in protocol.receive_message:
\*   "garbage"  oversize length, bad UTF-8 or bad JSON   -> None
\*   "nondict"  valid JSON that is not a mapping          -> that value
\*   "dict"     a mapping                                  -> the mapping
RegistrationMsgs ==
    [type : {"registration"}, client_id : ClientIds \cup {""}]
        \cup {[type |-> "registration"]}
\* The values a client puts in a Registration's auth_token field.
AuthTokens == {"token-a", "token-b"}
\* client.py send_registration: registration_message.
registration_message(client_id, auth_token) ==
    [type |-> "registration", client_id |-> client_id, auth_token |-> auth_token]
ResultMsgs == [type : {"result"}, command : Commands]
CommandMsgs == [type : {"command"}, command : Commands]
OtherMsgs == {[type |-> "other"]}
PeerFrames ==
    {[kind |-> "garbage"], [kind |-> "nondict"]}
        \cup [kind : {"dict"}, msg : RegistrationMsgs \cup ResultMsgs \cup OtherMsgs]
\* The Registration frames of client.py's send_registration.
AgentFrames ==
    {[kind |-> "dict", msg |-> registration_message(client_id, auth_token)] :
        client_id \in ClientIds, auth_token \in AuthTokens}
\* A frame of an arbitrary peer in flight: its content is any of PeerFrames.
AnyFrame == [kind |-> "any"]

\* dict.get(key): the value, or None when the key is missing.
msg_get(m, key) == IF key \in DOMAIN m THEN m[key] ELSE None

\* protocol.receive_message on the next frame (NoFrame: the stream ended or the
\* socket failed before a frame was complete).
NoFrame == [kind |-> "eof"]
receive_message(frame) ==
    CASE frame.kind = "dict"    -> [tag |-> "dict", msg |-> frame.msg]
      [] frame.kind = "nondict" -> [tag |-> "other"]
      [] OTHER                  -> [tag |-> "none"]

VARIABLES
    shutdown,        \* shutdown_event.is_set()
    sessions,        \* SessionManager._sessions: key -> session object (its handler)
    lpc,             \* connection_listener: position
    lconn,           \* connection_listener: client_socket of the current iteration
    hpc,             \* client_handler: position, per connection
    session_id,      \* client_handler: local session_id
    reg_message,     \* handle_registration: local reg_message
    sess,            \* client_handler: local session (the ClientSession object)
    command_queue,   \* ClientSession.command_queue
    command,         \* client_handler: local command
    sock,            \* server side of the connection: "none", "open", "closed"
    mpc,             \* main thread: position
    current_client_id, \* operator_interface: current_client_id
    osession,        \* operator_interface: local session of the command branch
    client_ids,      \* main: keys still to close in the shutdown loop
    conn,            \* peer's view of the connection: "idle", "pending", "accepted"
    peer,            \* kind of peer: "agent" runs client.py main_loop, "rogue" anything
    hs,              \* outcome the peer gives the TLS handshake
    c2s,             \* frames in flight peer -> server
    s2c,             \* frames in flight server -> peer (agent only)
    peerClosed,      \* the peer closed its end
    ppc,             \* agent: position
    pcommand,        \* agent: command being executed
    nenq,            \* history: number of commands put on the session's queue
    nsent,           \* history: number of Command messages sent on the connection
    nreply,          \* history: number of well-formed replies read in the command loop
    npub,            \* history: number of results displayed
    cleanups,        \* history: number of times the handler's cleanup ran
    lock,            \* SessionManager._lock: the thread that holds it, or NoThread
    tpc,             \* registry caller: position inside the SessionManager method
    targ,            \* registry caller: the method called and its client_id argument
    tlocal,          \* registry caller: locals of the method (add: found, mark: session)
    tret,            \* registry caller: the value the method returns
    objs,            \* the ClientSession object each caller constructed
    added,           \* history: outcome of the caller's add_session
    npop,            \* history: number of remove_session calls that returned the object
    seen,            \* list_sessions: the keys the iteration started over
    tcalls,          \* number of registry calls the caller has made
    wire,            \* codec: bytes written to the stream and not yet read
    wclosed,         \* codec: the writing end has closed the stream
    nraw,            \* codec: number of writes to the stream made without send_message
    outbox,          \* history: messages send_message wrote that receive_message has not returned
    smsg,            \* send_message: message_dict of the last call
    sok,             \* send_message: value the last call returned
    nsends,          \* codec: number of send_message calls
    rpc,             \* receive_message: position
    rdata,           \* recv_exactly: data
    rneed,           \* recv_exactly: num_bytes
    rlen,            \* receive_message: message_length
    rconsumed,       \* history: bytes the current receive_message call took off the stream
    rresult,         \* receive_message: value returned
    rtaken,          \* history: the bytes the current receive_message call took off the stream
    rbytewise,       \* history: every sock.recv of the current call returned a single byte
    kpc,             \* client.py: position
    kentry,          \* client.py: the function that was called (main, or main_loop on its own)
    retry_count,     \* connect_to_server: retry_count
    delay,           \* connect_to_server: delay
    koutcomes,       \* history: how each connect attempt ended
    ksleeps,         \* history: the arguments of time.sleep, in order
    ksock,           \* client.py: the value connect_to_server returned
    kin,             \* messages the server has sent and the client has not read
    kinclosed,       \* the server has closed the connection
    kout,            \* history: the types of the messages the client has sent
    kcommand,        \* main_loop: command
    kexec,           \* main_loop: what execute_command returned
    kcmds,           \* history: number of Command messages main_loop has received
    nserver,         \* number of messages the server has sent
    clock,           \* datetime.now(), in seconds
    issued           \* history: the values generate_session_id has returned, in order

vars == <<shutdown, sessions, lpc, lconn, hpc, session_id, reg_message, sess, command_queue,
          command, sock, mpc, current_client_id, osession, client_ids, conn, peer,
          hs, c2s, s2c, peerClosed, ppc, pcommand, nenq, nsent, nreply, npub, cleanups,
          lock, tpc, targ, tlocal, tret, objs, added, npop, seen, tcalls,
          wire, wclosed, nraw, outbox, smsg, sok, nsends, rpc, rdata, rneed, rlen,
          rconsumed, rresult, rtaken, rbytewise,
          kpc, kentry, retry_count, delay, koutcomes, ksleeps, ksock, kin, kinclosed, kout,
          kcommand, kexec, kcmds, nserver, clock, issued>>

listenerVars == <<lpc, lconn>>
mainVars == <<mpc, current_client_id, osession, client_ids>>
peerVars == <<conn, peer, hs, c2s, s2c, peerClosed, ppc, pcommand>>
histVars == <<nenq, nsent, nreply, npub, cleanups>>
\* The server's state apart from the registry's dictionary.
serverVars == <<shutdown, lpc, lconn, hpc, session_id, reg_message, sess, command_queue,
                command, sock, mpc, current_client_id, osession, client_ids, conn, peer,
                hs, c2s, s2c, peerClosed, ppc, pcommand, nenq, nsent, nreply, npub, cleanups>>
\* The state of the SessionManager's callers when its methods are followed
\* statement by statement.
registryVars == <<lock, tpc, targ, tlocal, tret, objs, added, npop, seen, tcalls>>
\* The state of one byte stream with protocol.send_message at one end and
\* protocol.receive_message at the other.
codecVars == <<wire, wclosed, nraw, outbox, smsg, sok, nsends, rpc, rdata, rneed, rlen,
               rconsumed, rresult, rtaken, rbytewise>>
\* The state of one run of client.py.
clientVars == <<kpc, kentry, retry_count, delay, koutcomes, ksleeps, ksock, kin, kinclosed,
                kout, kcommand, kexec, kcmds, nserver>>
\* The clock and the session ids generated so far.
idVars == <<clock, issued>>
unitVars == <<registryVars, codecVars, clientVars, idVars>>

\* ------------------------------------------------------------------ registry callers
\* Number of threads that call the SessionManager concurrently.
MaxThreads == 2
\* Number of SessionManager calls each thread makes.
MaxCalls == 2
\* Last tick of the clock (datetime.now(), two ticks to the second).
MaxTicks == 2

Threads == 1..MaxThreads
NoThread == 0
RegistryKeys == ClientIds
RegistryOps == {"add_session", "remove_session", "get_session", "list_sessions",
                "get_session_count", "mark_disconnected", "get_all_client_ids"}
\* A ClientSession that has not been constructed.
NoObject == [exists |-> FALSE, client_id |-> None, session_id |-> None, address |-> None,
             connected |-> FALSE, registered_at |-> 0, last_activity |-> 0]
NoCall == [op |-> None, key |-> None]
NoLocals == [found |-> FALSE, session |-> NoThread]
NoReturn == [op |-> None]

\* A local that holds no message (before the receive, and after the function
\* that owns it has returned).
NoMessage == [tag |-> "unset"]
\* execute_command has not returned.
NoExecution == [stdout |-> "", stderr |-> "", return_code |-> 0, ran |-> FALSE]

\* ClientSession before construction (client_handler: session = None).
NoSession == [exists |-> FALSE, session_id |-> None, client_id |-> None,
              connected |-> FALSE, last_activity |-> 0]

\* ------------------------------------------------------------------ registry
\* SessionManager.get_session_count
get_session_count(reg) == Cardinality(DOMAIN reg)

\* SessionManager.get_session
get_session(reg, client_id) ==
    IF client_id \in DOMAIN reg THEN reg[client_id] ELSE NoHandler

\* add_session that stores the session without the duplicate check.
add_session_overwrite(reg, s, client_id) ==
    [ok |-> TRUE,
     reg |-> [k \in DOMAIN reg \cup {client_id} |-> IF k = client_id THEN s ELSE reg[k]]]

\* add_session that keys the registry by the session's session_id.
add_session_by_session_id(reg, s, client_id) ==
    IF ("SESSION-" \o ToString(s)) \in DOMAIN reg
        THEN [ok |-> FALSE, reg |-> reg]
        ELSE [ok |-> TRUE, reg |-> reg @@ (("SESSION-" \o ToString(s)) :> s)]

\* SessionManager.add_session: the registry afterwards and the value returned.
add_session(reg, s, client_id) ==
    IF client_id \in DOMAIN reg
        THEN [ok |-> FALSE, reg |-> reg]
        ELSE [ok |-> TRUE, reg |-> reg @@ (client_id :> s)]

\* remove_session that looks the session up without popping it.
remove_session_keeps(reg, client_id) ==
    [removed |-> get_session(reg, client_id), reg |-> reg]

\* SessionManager.remove_session: the registry afterwards and the session popped.
remove_session(reg, client_id) ==
    [removed |-> get_session(reg, client_id),
     reg |-> [k \in DOMAIN reg \ {client_id} |-> reg[k]]]

\* SessionManager.get_all_client_ids
get_all_client_ids(reg) == DOMAIN reg

\* The interpreter is still running (main() has not returned; the listener and
\* the handlers are daemon threads).
Running == mpc # "exited"

Init ==
    /\ shutdown = FALSE
    /\ sessions = [k \in {} |-> NoHandler]
    /\ lpc = "loop"
    /\ lconn = NoHandler
    /\ hpc = [h \in Handlers |-> "none"]
    /\ session_id = [h \in Handlers |-> None]
    /\ reg_message = [h \in Handlers |-> NoMessage]
    /\ sess = [h \in Handlers |-> NoSession]
    /\ command_queue = [h \in Handlers |-> << >>]
    /\ command = [h \in Handlers |-> None]
    /\ sock = [h \in Handlers |-> "none"]
    /\ mpc = "operator"
    /\ current_client_id = None
    /\ osession = NoHandler
    /\ client_ids = {}
    /\ conn = [h \in Handlers |-> "idle"]
    /\ peer = [h \in Handlers |-> "rogue"]
    /\ hs = [h \in Handlers |-> "none"]
    /\ c2s = [h \in Handlers |-> << >>]
    /\ s2c = [h \in Handlers |-> << >>]
    /\ peerClosed = [h \in Handlers |-> FALSE]
    /\ ppc = [h \in Handlers |-> "none"]
    /\ pcommand = [h \in Handlers |-> None]
    /\ nenq = [h \in Handlers |-> 0]
    /\ nsent = [h \in Handlers |-> 0]
    /\ nreply = [h \in Handlers |-> 0]
    /\ npub = [h \in Handlers |-> 0]
    /\ cleanups = [h \in Handlers |-> 0]
    /\ lock = NoThread
    /\ tpc = [t \in Threads |-> "new"]
    /\ targ = [t \in Threads |-> NoCall]
    /\ tlocal = [t \in Threads |-> NoLocals]
    /\ tret = [t \in Threads |-> NoReturn]
    /\ objs = [t \in Threads |-> NoObject]
    /\ added = [t \in Threads |-> "no"]
    /\ npop = [t \in Threads |-> 0]
    /\ seen = [t \in Threads |-> {}]
    /\ tcalls = [t \in Threads |-> 0]
    /\ wire = << >>
    /\ wclosed = FALSE
    /\ nraw = 0
    /\ outbox = << >>
    /\ smsg = << >>
    /\ sok = FALSE
    /\ nsends = 0
    /\ rpc = "idle"
    /\ rdata = << >>
    /\ rneed = 0
    /\ rlen = 0
    /\ rconsumed = 0
    /\ rresult = NoMessage
    /\ rtaken = << >>
    /\ rbytewise = TRUE
    /\ kpc = "start"
    /\ kentry = "none"
    /\ retry_count = 0
    /\ delay = 0
    /\ koutcomes = << >>
    /\ ksleeps = << >>
    /\ ksock = None
    /\ kin = << >>
    /\ kinclosed = FALSE
    /\ kout = << >>
    /\ kcommand = None
    /\ kexec = NoExecution
    /\ kcmds = 0
    /\ nserver = 0
    /\ clock = 0
    /\ issued = << >>

\* ------------------------------------------------------------------ listener
\* connection_listener, `while not shutdown_event.is_set()`.
ListenerLoop ==
    /\ Running
    /\ lpc = "loop"
    /\ lpc' = IF shutdown THEN "stopped" ELSE "check"
    /\ UNCHANGED <<shutdown, sessions, lconn, hpc, session_id, reg_message, sess, command_queue,
                   command, sock, mainVars, peerVars, histVars, unitVars>>

\* The capacity check: at capacity the listener sleeps and re-checks, below it
\* goes on to accept().
ListenerCheck ==
    /\ Running
    /\ lpc = "check"
    /\ lpc' = IF get_session_count(sessions) >= MAX_CLIENTS THEN "loop" ELSE "accept"
    /\ UNCHANGED <<shutdown, sessions, lconn, hpc, session_id, reg_message, sess, command_queue,
                   command, sock, mainVars, peerVars, histVars, unitVars>>

\* server_socket.accept() returns the pending connection that has waited longest.
ListenerAccept(h) ==
    /\ Running
    /\ lpc = "accept"
    /\ conn[h] = "pending"
    /\ \A g \in Handlers : g < h => conn[g] # "pending"
    /\ conn' = [conn EXCEPT ![h] = "accepted"]
    /\ sock' = [sock EXCEPT ![h] = "open"]
    /\ lconn' = h
    /\ lpc' = IF TLS_ENABLED THEN "wrap" ELSE "spawn"
    /\ UNCHANGED <<shutdown, sessions, hpc, session_id, reg_message, sess, command_queue, command,
                   mainVars, peer, hs, c2s, s2c, peerClosed, ppc, pcommand, histVars, unitVars>>

\* server_socket.accept() times out after one second with no connection.
ListenerAcceptTimeout ==
    /\ Running
    /\ lpc = "accept"
    /\ \A h \in Handlers : conn[h] # "pending"
    /\ lpc' = "loop"
    /\ UNCHANGED <<shutdown, sessions, lconn, hpc, session_id, reg_message, sess, command_queue,
                   command, sock, mainVars, peerVars, histVars, unitVars>>

\* The socket after a handshake that raised something other than ssl.SSLError,
\* had wrap_socket left it to its caller: the loop's outer handler only logs.
wrap_failure_leaves_open(state) == state
\* The socket after a handshake that raised: ssl.SSLSocket._create, which
\* wrap_socket runs, closes the socket it has taken over before it lets an
\* OSError or ValueError of the handshake out (ssl.SSLError is an OSError), so
\* the connection is closed before either of the listener's handlers sees the
\* exception.
wrap_failure(state) == "closed"

\* ssl_context.wrap_socket(client_socket, server_side=True), run by the listener
\* itself on a blocking socket: it returns when the peer has finished the
\* handshake ("ok"), raises ssl.SSLError ("ssl_error": the socket is closed and the
\* loop continues) or raises another exception ("os_error": caught by the loop's
\* outer handler, which logs it; the loop continues).
ListenerWrap ==
    /\ Running
    /\ lpc = "wrap"
    /\ hs[lconn] # "none"
    /\ CASE hs[lconn] = "ok" ->
              /\ lpc' = "spawn"
              /\ UNCHANGED <<lconn, sock>>
         [] hs[lconn] = "ssl_error" ->
              /\ lpc' = "loop"
              /\ lconn' = NoHandler
              /\ sock' = [sock EXCEPT ![lconn] = "closed"]
         [] OTHER ->
              /\ lpc' = "loop"
              /\ lconn' = NoHandler
              /\ sock' = [sock EXCEPT ![lconn] = wrap_failure(sock[lconn])]
    /\ UNCHANGED <<shutdown, sessions, hpc, session_id, reg_message, sess, command_queue, command,
                   mainVars, peerVars, histVars, unitVars>>

\* threading.Thread(target=client_handler, ...).start()
ListenerSpawn ==
    /\ Running
    /\ lpc = "spawn"
    /\ hpc' = [hpc EXCEPT ![lconn] = "start"]
    /\ lconn' = NoHandler
    /\ lpc' = "loop"
    /\ UNCHANGED <<shutdown, sessions, session_id, reg_message, sess, command_queue, command, sock,
                   mainVars, peerVars, histVars, unitVars>>

Listener ==
    \/ ListenerLoop
    \/ ListenerCheck
    \/ \E h \in Handlers : ListenerAccept(h)
    \/ ListenerAcceptTimeout
    \/ ListenerWrap
    \/ ListenerSpawn

\* ------------------------------------------------------------------ handler
\* The frame a blocking receive on connection h returns now: the next frame in
\* flight, or NoFrame once the stream has ended (peer closed, or this side of the
\* socket closed).  With neither, the receive blocks.
Incoming(h) ==
    IF sock[h] = "closed" THEN {NoFrame}
    ELSE IF c2s[h] # << >>
       THEN IF Head(c2s[h]) = AnyFrame THEN PeerFrames ELSE {Head(c2s[h])}
       ELSE IF peerClosed[h] THEN {NoFrame} ELSE {}
Consumed(h) == IF c2s[h] # << >> /\ sock[h] = "open" THEN Tail(c2s[h]) ELSE c2s[h]

\* handle_registration without the `if not client_id` check.
handle_registration_unchecked_id(message) ==
    CASE message.tag = "none" -> None
      [] message.tag = "other" -> None
      [] msg_get(message.msg, "type") # "registration" -> None
      [] OTHER -> msg_get(message.msg, "client_id")

\* handle_registration that admits one value of auth_token only.
handle_registration_checks_token(message) ==
    CASE message.tag = "none" -> None
      [] message.tag = "other" -> None
      [] msg_get(message.msg, "type") # "registration" -> None
      [] msg_get(message.msg, "client_id") \in {None, ""} -> None
      [] msg_get(message.msg, "auth_token") # "token-a" -> None
      [] OTHER -> msg_get(message.msg, "client_id")

\* handle_registration after its receive: the client_id, or None when
\* registration fails (no message, the AttributeError of .get on a value that is
\* not a mapping, a wrong type, a missing or empty client_id).
handle_registration(message) ==
    CASE message.tag = "none" -> None
      [] message.tag = "other" -> None
      [] msg_get(message.msg, "type") # "registration" -> None
      [] msg_get(message.msg, "client_id") \in {None, ""} -> None
      [] OTHER -> msg_get(message.msg, "client_id")

\* generate_session_id, called by the handler of connection h.
generate_session_id(h) == "SESSION-" \o ToString(h)

\* client_handler entry: session = None, session_id = generate_session_id().
HandlerStart(h) ==
    /\ Running
    /\ hpc[h] = "start"
    /\ session_id' = [session_id EXCEPT ![h] = generate_session_id(h)]
    /\ hpc' = [hpc EXCEPT ![h] = "reg"]
    /\ UNCHANGED <<shutdown, sessions, listenerVars, reg_message, sess, command_queue, command,
                   sock, mainVars, peerVars, histVars, unitVars>>

\* handle_registration: reg_message = protocol.receive_message(client_socket)
HandlerReceiveRegistration(h, frame) ==
    /\ Running
    /\ hpc[h] = "reg"
    /\ frame \in Incoming(h)
    /\ reg_message' = [reg_message EXCEPT ![h] = receive_message(frame)]
    /\ c2s' = [c2s EXCEPT ![h] = Consumed(h)]
    /\ hpc' = [hpc EXCEPT ![h] = "reg_check"]
    /\ UNCHANGED <<shutdown, sessions, listenerVars, session_id, sess, command_queue,
                   command, sock, mainVars, conn, peer, hs, s2c, peerClosed, ppc,
                   pcommand, histVars, unitVars>>

\* The rest of handle_registration and what client_handler does with its
\* value: on None the handler returns (to the finally block, with session still
\* None); otherwise it constructs the ClientSession.
HandlerRegister(h) ==
    /\ Running
    /\ hpc[h] = "reg_check"
    /\ LET client_id == handle_registration(reg_message[h]) IN
         IF client_id = None
            THEN /\ hpc' = [hpc EXCEPT ![h] = "fin_mark"]
                 /\ UNCHANGED <<sess, command_queue>>
            ELSE /\ sess' = [sess EXCEPT ![h] =
                        [exists |-> TRUE, session_id |-> session_id[h],
                         client_id |-> client_id, connected |-> TRUE,
                         last_activity |-> 0]]
                 /\ command_queue' = [command_queue EXCEPT ![h] = << >>]
                 /\ hpc' = [hpc EXCEPT ![h] = "add"]
    /\ reg_message' = [reg_message EXCEPT ![h] = NoMessage]
    /\ UNCHANGED <<shutdown, sessions, listenerVars, session_id, command, sock,
                   mainVars, peerVars, histVars, unitVars>>

\* `if not session_manager.add_session(session): ... return`
HandlerAdd(h) ==
    /\ Running
    /\ hpc[h] = "add"
    /\ LET r == add_session(sessions, h, sess[h].client_id) IN
         /\ sessions' = r.reg
         /\ hpc' = [hpc EXCEPT ![h] = IF r.ok THEN "loop" ELSE "fin_mark"]
    /\ UNCHANGED <<shutdown, listenerVars, session_id, reg_message, sess, command_queue, command,
                   sock, mainVars, peerVars, histVars, unitVars>>

\* `while session.connected:`
HandlerLoop(h) ==
    /\ Running
    /\ hpc[h] = "loop"
    /\ hpc' = [hpc EXCEPT ![h] = IF sess[h].connected THEN "get" ELSE "fin_mark"]
    /\ UNCHANGED <<shutdown, sessions, listenerVars, session_id, reg_message, sess, command_queue,
                   command, sock, mainVars, peerVars, histVars, unitVars>>

\* A get that takes the newest item (a LIFO queue).
queue_get_newest(q) == [item |-> q[Len(q)], rest |-> SubSeq(q, 1, Len(q) - 1)]

\* queue.Queue.get on a queue that is not empty: the item and the queue left.
queue_get(q) == [item |-> Head(q), rest |-> Tail(q)]

\* command = session.command_queue.get(timeout=1.0); queue.Empty -> continue.
HandlerGet(h) ==
    /\ Running
    /\ hpc[h] = "get"
    /\ IF command_queue[h] # << >>
          THEN /\ command' = [command EXCEPT ![h] = queue_get(command_queue[h]).item]
               /\ command_queue' = [command_queue EXCEPT ![h] = queue_get(@).rest]
               /\ hpc' = [hpc EXCEPT ![h] = "send"]
          ELSE /\ hpc' = [hpc EXCEPT ![h] = "loop"]
               /\ UNCHANGED <<command, command_queue>>
    /\ UNCHANGED <<shutdown, sessions, listenerVars, session_id, reg_message, sess, sock,
                   mainVars, peerVars, histVars, unitVars>>

\* A loop body that goes back for the next command without reading the result.
after_send_no_receive(success) == IF success THEN "loop" ELSE "fin_mark"

\* Where the loop body goes after send_message: on to the receive of the paired
\* result, or out of the loop (`if not success: ... break`).
after_send(success) == IF success THEN "recv" ELSE "fin_mark"

\* success = protocol.send_message(client_socket, command_message).  sendall
\* fails on a socket this side has closed; after the peer has closed it may
\* still succeed (the bytes are buffered) or fail (connection reset).
HandlerSend(h, success) ==
    /\ Running
    /\ hpc[h] = "send"
    /\ success => sock[h] = "open"
    /\ ~success => (sock[h] = "closed" \/ peerClosed[h])
    /\ IF success
          THEN /\ nsent' = [nsent EXCEPT ![h] = @ + 1]
               /\ s2c' = [s2c EXCEPT ![h] =
                     IF peer[h] = "agent" /\ ~peerClosed[h]
                        THEN Append(@, [type |-> "command", command |-> command[h]])
                        ELSE @]
               /\ hpc' = [hpc EXCEPT ![h] = after_send(success)]
          ELSE /\ hpc' = [hpc EXCEPT ![h] = after_send(success)]
               /\ UNCHANGED <<nsent, s2c>>
    /\ UNCHANGED <<shutdown, sessions, listenerVars, session_id, reg_message, sess, command_queue,
                   command, sock, mainVars, conn, peer, hs, c2s, peerClosed, ppc,
                   pcommand, nenq, nreply, npub, cleanups, unitVars>>

\* A loop body that treats a failed receive like a reply of an unexpected type.
reply_action_ignores_failure(frame) ==
    LET result_message == receive_message(frame) IN
    CASE result_message.tag = "none" -> "continue"
      [] result_message.tag = "other" -> "break"
      [] msg_get(result_message.msg, "type") # "result" -> "continue"
      [] OTHER -> "publish"

\* A loop body that goes on to the display when the receive failed.
reply_action_publishes_failure(frame) ==
    LET result_message == receive_message(frame) IN
    CASE result_message.tag = "none" -> "publish"
      [] result_message.tag = "other" -> "break"
      [] msg_get(result_message.msg, "type") # "result" -> "continue"
      [] OTHER -> "publish"

\* A loop body that ends the session on a reply of an unexpected type.
reply_action_strict(frame) ==
    LET result_message == receive_message(frame) IN
    CASE result_message.tag = "none" -> "break"
      [] result_message.tag = "other" -> "break"
      [] msg_get(result_message.msg, "type") # "result" -> "break"
      [] OTHER -> "publish"

\* What the command loop does with the reply to the command in flight:
\*   "break"    result_message is None, or the loop's `except Exception` caught
\*              the AttributeError of .get on a value that is not a mapping
\*   "continue" a mapping whose type is not 'result' (logged)
\*   "publish"  a Result: update_activity and display_results
reply_action(frame) ==
    LET result_message == receive_message(frame) IN
    CASE result_message.tag = "none" -> "break"
      [] result_message.tag = "other" -> "break"
      [] msg_get(result_message.msg, "type") # "result" -> "continue"
      [] OTHER -> "publish"

\* A Result branch that leaves out the call of update_activity.
update_activity_skipped(s, h) == s
\* session.update_activity(): self.last_activity = datetime.now().  The time is
\* counted in updates: last_activity is the number of the update that wrote it,
\* 0 for the value the session was constructed with.
update_activity(s, h) == [s EXCEPT ![h].last_activity = @ + 1]

\* result_message = protocol.receive_message(client_socket) and what follows it
\* in the loop body.
HandlerRecv(h, frame) ==
    /\ Running
    /\ hpc[h] = "recv"
    /\ frame \in Incoming(h)
    /\ LET act == reply_action(frame) IN
         /\ hpc' = [hpc EXCEPT ![h] = IF act = "break" THEN "fin_mark" ELSE "loop"]
         /\ nreply' = [nreply EXCEPT ![h] = IF act = "break" THEN @ ELSE @ + 1]
         /\ npub' = [npub EXCEPT ![h] = IF act = "publish" THEN @ + 1 ELSE @]
         /\ sess' = IF act = "publish" THEN update_activity(sess, h) ELSE sess
    /\ c2s' = [c2s EXCEPT ![h] = Consumed(h)]
    /\ UNCHANGED <<shutdown, sessions, listenerVars, session_id, reg_message, command_queue,
                   command, sock, mainVars, conn, peer, hs, s2c, peerClosed, ppc,
                   pcommand, nenq, nsent, cleanups, unitVars>>

\* finally: `if session: session.connected = False`
HandlerFinMark(h) ==
    /\ Running
    /\ hpc[h] = "fin_mark"
    /\ cleanups' = [cleanups EXCEPT ![h] = @ + 1]
    /\ IF sess[h].exists
          THEN /\ sess' = [sess EXCEPT ![h].connected = FALSE]
               /\ hpc' = [hpc EXCEPT ![h] = "fin_remove"]
          ELSE /\ hpc' = [hpc EXCEPT ![h] = "fin_close"]
               /\ UNCHANGED sess
    /\ UNCHANGED <<shutdown, sessions, listenerVars, session_id, reg_message, command_queue,
                   command, sock, mainVars, peerVars, nenq, nsent, nreply, npub, unitVars>>

\* finally: removed = session_manager.remove_session(session.client_id)
HandlerFinRemove(h) ==
    /\ Running
    /\ hpc[h] = "fin_remove"
    /\ sessions' = remove_session(sessions, sess[h].client_id).reg
    /\ hpc' = [hpc EXCEPT ![h] = "fin_close"]
    /\ UNCHANGED <<shutdown, listenerVars, session_id, reg_message, sess, command_queue, command,
                   sock, mainVars, peerVars, histVars, unitVars>>

\* A close that leaves an open socket open.
socket_close_skipped(state) == state
\* socket.close(): the socket is closed afterwards, whether it was open or
\* already closed (a second close does nothing).
socket_close(state) == "closed"

\* finally: client_socket.close(); the thread exits.
HandlerFinClose(h) ==
    /\ Running
    /\ hpc[h] = "fin_close"
    /\ sock' = [sock EXCEPT ![h] = socket_close(@)]
    /\ hpc' = [hpc EXCEPT ![h] = "done"]
    /\ UNCHANGED <<shutdown, sessions, listenerVars, session_id, reg_message, sess, command_queue,
                   command, mainVars, peerVars, histVars, unitVars>>

Handler(h) ==
    \/ HandlerStart(h)
    \/ \E frame \in PeerFrames \cup AgentFrames \cup {NoFrame} :
          HandlerReceiveRegistration(h, frame)
    \/ HandlerRegister(h)
    \/ HandlerAdd(h)
    \/ HandlerLoop(h)
    \/ HandlerGet(h)
    \/ \E success \in BOOLEAN : HandlerSend(h, success)
    \/ \E frame \in PeerFrames \cup {NoFrame} : HandlerRecv(h, frame)
    \/ HandlerFinMark(h)
    \/ HandlerFinRemove(h)
    \/ HandlerFinClose(h)

\* ------------------------------------------------------------------ main thread
RECURSIVE SumOver(_, _)
SumOver(f, S) ==
    IF S = {} THEN 0 ELSE LET x == CHOOSE y \in S : TRUE IN f[x] + SumOver(f, S \ {x})
TotalEnqueued == SumOver(nenq, Handlers)

\* operator_interface, `use <client_id>`: the session must exist.
OperatorUse(k) ==
    /\ mpc = "operator"
    /\ get_session(sessions, k) # NoHandler
    /\ current_client_id' = k
    /\ UNCHANGED <<shutdown, sessions, listenerVars, hpc, session_id, reg_message, sess,
                   command_queue, command, sock, mpc, osession, client_ids,
                   peerVars, histVars, unitVars>>

\* operator_interface, a regular command: look the selected session up and
\* check that it exists and is connected.
OperatorLookup ==
    /\ mpc = "operator"
    /\ current_client_id # None
    /\ LET session == get_session(sessions, current_client_id) IN
         IF session = NoHandler
            THEN /\ current_client_id' = None
                 /\ UNCHANGED <<mpc, osession>>
            ELSE IF ~sess[session].connected
                    THEN /\ current_client_id' = None
                         /\ UNCHANGED <<mpc, osession>>
                    ELSE /\ TotalEnqueued < MaxCmds
                         /\ mpc' = "put"
                         /\ osession' = session
                         /\ UNCHANGED current_client_id
    /\ UNCHANGED <<shutdown, sessions, listenerVars, hpc, session_id, reg_message, sess,
                   command_queue, command, sock, client_ids, peerVars, histVars, unitVars>>

\* A put that drops the items still waiting in the queue.
queue_put_replace(q, item) == <<item>>
\* queue.Queue.put on an unbounded queue: the queue afterwards.
queue_put(q, item) == Append(q, item)

\* operator_interface: session.command_queue.put(command)
OperatorPut ==
    /\ mpc = "put"
    /\ command_queue' = [command_queue EXCEPT ![osession] =
                            queue_put(@, Cmd(nenq[osession] + 1))]
    /\ nenq' = [nenq EXCEPT ![osession] = @ + 1]
    /\ mpc' = "operator"
    /\ osession' = NoHandler
    /\ UNCHANGED <<shutdown, sessions, listenerVars, hpc, session_id, reg_message, sess, command,
                   sock, current_client_id, client_ids, peerVars, nsent, nreply,
                   npub, cleanups, unitVars>>

\* operator_interface returns (exit, EOF, Ctrl+C or an error) and main's finally
\* block sets the shutdown event.
MainShutdownSignal ==
    /\ mpc = "operator"
    /\ shutdown' = TRUE
    /\ mpc' = "join"
    /\ UNCHANGED <<sessions, listenerVars, hpc, session_id, reg_message, sess, command_queue,
                   command, sock, current_client_id, osession, client_ids, peerVars,
                   histVars, unitVars>>

\* listener_thread.join(timeout=5.0): the listener has stopped, or the join times
\* out while the listener is blocked in the TLS handshake.
MainJoin ==
    /\ mpc = "join"
    /\ lpc \in {"stopped", "wrap"}
    /\ mpc' = "list"
    /\ UNCHANGED <<shutdown, sessions, listenerVars, hpc, session_id, reg_message, sess,
                   command_queue, command, sock, current_client_id, osession,
                   client_ids, peerVars, histVars, unitVars>>

\* client_ids = session_manager.get_all_client_ids()
MainListIds ==
    /\ mpc = "list"
    /\ client_ids' = get_all_client_ids(sessions)
    /\ mpc' = "close"
    /\ UNCHANGED <<shutdown, sessions, listenerVars, hpc, session_id, reg_message, sess,
                   command_queue, command, sock, current_client_id, osession,
                   peerVars, histVars, unitVars>>

\* One iteration of `for client_id in client_ids`: get_session, and if the
\* session is still there mark it disconnected and close its socket.
MainCloseOne(k) ==
    /\ mpc = "close"
    /\ k \in client_ids
    /\ client_ids' = client_ids \ {k}
    /\ LET session == get_session(sessions, k) IN
         IF session # NoHandler
            THEN /\ sess' = [sess EXCEPT ![session].connected = FALSE]
                 /\ sock' = [sock EXCEPT ![session] = "closed"]
            ELSE UNCHANGED <<sess, sock>>
    /\ UNCHANGED <<shutdown, sessions, listenerVars, hpc, session_id, reg_message, command_queue,
                   command, mpc, current_client_id, osession, peerVars, histVars, unitVars>>

\* After the loop: the grace sleep, server_socket.close(), main returns and the
\* daemon threads end with the process.
MainExit ==
    /\ mpc = "close"
    /\ client_ids = {}
    /\ mpc' = "exited"
    /\ UNCHANGED <<shutdown, sessions, listenerVars, hpc, session_id, reg_message, sess,
                   command_queue, command, sock, current_client_id, osession,
                   client_ids, peerVars, histVars, unitVars>>

Main ==
    \/ \E k \in ClientIds : OperatorUse(k)
    \/ OperatorLookup
    \/ OperatorPut
    \/ MainShutdownSignal
    \/ MainJoin
    \/ MainListIds
    \/ \E k \in ClientIds : MainCloseOne(k)
    \/ MainExit

\* ------------------------------------------------------------------ peers
\* The transport is up and, with TLS, the handshake has succeeded; the peer is
\* followed for as long as the handler of its connection has not exited.
Established(h) ==
    /\ conn[h] = "accepted"
    /\ TLS_ENABLED => hs[h] = "ok"
    /\ hpc[h] # "done"

\* A peer opens a connection; it waits in the listening socket's backlog.
\* Connections are opened in index order (they are interchangeable).
PeerConnect(h, kind) ==
    /\ Running
    /\ conn[h] = "idle"
    /\ \A g \in Handlers : g < h => conn[g] # "idle"
    /\ conn' = [conn EXCEPT ![h] = "pending"]
    /\ peer' = [peer EXCEPT ![h] = kind]
    /\ ppc' = [ppc EXCEPT ![h] = IF kind = "agent" THEN "register" ELSE "none"]
    /\ UNCHANGED <<shutdown, sessions, listenerVars, hpc, session_id, reg_message, sess,
                   command_queue, command, sock, mainVars, hs, c2s, s2c, peerClosed,
                   pcommand, histVars, unitVars>>

\* The peer's part in the TLS handshake the listener is running: it completes
\* it, breaks it at the TLS level, or breaks the transport.  A peer that does
\* none of these leaves the handshake pending.
PeerHandshake(h, outcome) ==
    /\ Running
    /\ TLS_ENABLED
    /\ lpc = "wrap" /\ lconn = h
    /\ hs[h] = "none"
    /\ hs' = [hs EXCEPT ![h] = outcome]
    /\ UNCHANGED <<shutdown, sessions, listenerVars, hpc, session_id, reg_message, sess,
                   command_queue, command, sock, mainVars, conn, peer, c2s, s2c,
                   peerClosed, ppc, pcommand, histVars, unitVars>>

\* An arbitrary peer writes a frame at any time; what the frame holds is drawn
\* when the handler reads it.
RogueSend(h) ==
    /\ Running
    /\ peer[h] = "rogue"
    /\ Established(h)
    /\ ~peerClosed[h]
    /\ c2s[h] = << >>
    /\ c2s' = [c2s EXCEPT ![h] = <<AnyFrame>>]
    /\ UNCHANGED <<shutdown, sessions, listenerVars, hpc, session_id, reg_message, sess,
                   command_queue, command, sock, mainVars, conn, peer, hs, s2c,
                   peerClosed, ppc, pcommand, histVars, unitVars>>

\* An agent sends its Registration message first.
AgentRegister(h, cid, auth_token) ==
    /\ Running
    /\ ppc[h] = "register"
    /\ Established(h)
    /\ [kind |-> "dict", msg |-> registration_message(cid, auth_token)] \in AgentFrames
    /\ c2s' = [c2s EXCEPT ![h] =
          Append(@, [kind |-> "dict", msg |-> registration_message(cid, auth_token)])]
    /\ ppc' = [ppc EXCEPT ![h] = "main_recv"]
    /\ UNCHANGED <<shutdown, sessions, listenerVars, hpc, session_id, reg_message, sess,
                   command_queue, command, sock, mainVars, conn, peer, hs, s2c,
                   peerClosed, pcommand, histVars, unitVars>>

\* client.py main_loop: command_message = protocol.receive_message(...) and the
\* checks that follow it.
AgentRecv(h) ==
    /\ Running
    /\ ppc[h] = "main_recv"
    /\ hpc[h] # "done"
    /\ (s2c[h] # << >>) \/ (sock[h] = "closed")
    /\ IF s2c[h] = << >>
          THEN /\ ppc' = [ppc EXCEPT ![h] = "closed"]
               /\ peerClosed' = [peerClosed EXCEPT ![h] = TRUE]
               /\ UNCHANGED <<s2c, pcommand>>
          ELSE LET command_message == Head(s2c[h]) IN
               /\ s2c' = [s2c EXCEPT ![h] = Tail(@)]
               /\ IF msg_get(command_message, "type") # "command"
                     \/ msg_get(command_message, "command") \in {None, ""}
                     THEN UNCHANGED <<ppc, pcommand>>
                     ELSE /\ pcommand' = [pcommand EXCEPT ![h] =
                                 msg_get(command_message, "command")]
                          /\ ppc' = [ppc EXCEPT ![h] = "exec"]
               /\ UNCHANGED peerClosed
    /\ UNCHANGED <<shutdown, sessions, listenerVars, hpc, session_id, reg_message, sess,
                   command_queue, command, sock, mainVars, conn, peer, hs, c2s,
                   histVars, unitVars>>

\* client.py main_loop: execute_command, then send_result with the command it
\* executed; a failed send ends the loop and the client closes.
AgentSendResult(h) ==
    /\ Running
    /\ ppc[h] = "exec"
    /\ hpc[h] # "done"
    /\ IF sock[h] = "closed"
          THEN /\ ppc' = [ppc EXCEPT ![h] = "closed"]
               /\ peerClosed' = [peerClosed EXCEPT ![h] = TRUE]
               /\ UNCHANGED c2s
          ELSE /\ c2s' = [c2s EXCEPT ![h] =
                     Append(@, [kind |-> "dict",
                                msg |-> [type |-> "result", command |-> pcommand[h]]])]
               /\ ppc' = [ppc EXCEPT ![h] = "main_recv"]
               /\ UNCHANGED peerClosed
    /\ UNCHANGED <<shutdown, sessions, listenerVars, hpc, session_id, reg_message, sess,
                   command_queue, command, sock, mainVars, conn, peer, hs, s2c,
                   pcommand, histVars, unitVars>>

\* The peer closes its end (or dies) at any time after the handshake; a frame
\* it wrote before is read first.
PeerClose(h) ==
    /\ Running
    /\ Established(h)
    /\ ~peerClosed[h]
    /\ c2s[h] = << >>
    /\ peerClosed' = [peerClosed EXCEPT ![h] = TRUE]
    /\ ppc' = [ppc EXCEPT ![h] = IF peer[h] = "agent" THEN "closed" ELSE @]
    /\ UNCHANGED <<shutdown, sessions, listenerVars, hpc, session_id, reg_message, sess,
                   command_queue, command, sock, mainVars, conn, peer, hs, c2s, s2c,
                   pcommand, histVars, unitVars>>

\* Arbitrary peers: whatever a peer can do to the server.
Rogue(h) ==
    \/ PeerConnect(h, "rogue")
    \/ \E outcome \in {"ok", "ssl_error", "os_error"} : PeerHandshake(h, outcome)
    \/ RogueSend(h)
    \/ PeerClose(h)

\* Agents: peers that register and then run client.py's main_loop.
Agent(h) ==
    \/ PeerConnect(h, "agent")
    \/ \E outcome \in {"ok", "ssl_error", "os_error"} : PeerHandshake(h, outcome)
    \/ \E cid \in ClientIds : \E auth_token \in AuthTokens :
          AgentRegister(h, cid, auth_token)
    \/ AgentRecv(h)
    \/ AgentSendResult(h)
    \/ PeerClose(h)

\* ------------------------------------------------------------------ system
Next ==
    \/ Listener
    \/ \E h \in Handlers : Handler(h)
    \/ Main
    \/ \E h \in Handlers : Rogue(h)

\* The server against arbitrary peers.
Spec == Init /\ [][Next]_vars

NextAgent ==
    \/ Listener
    \/ \E h \in Handlers : Handler(h)
    \/ Main
    \/ \E h \in Handlers : Agent(h)

\* The server against agents running client.py's main_loop.
SpecAgent == Init /\ [][NextAgent]_vars

\* ------------------------------------------------------------------ SessionManager, statement by statement
\* The methods of SessionManager called concurrently by several threads (the
\* handlers, the listener and the main thread are its callers), each method
\* followed statement by statement: `with self._lock:` is entered, the body runs
\* one dictionary operation at a time, the lock is released on return.

\* A lock that any thread can take while another holds it.
lock_never_held(l) == TRUE

\* threading.Lock: `with self._lock` can be entered when no thread holds it.
lock_acquirable(l) == l = NoThread

\* A store that rebuilds the dictionary around the new entry.
dict_setitem_rebuild(reg, key, value) == (key :> value)

\* self._sessions[key] = value
dict_setitem(reg, key, value) ==
    [k \in DOMAIN reg \cup {key} |-> IF k = key THEN value ELSE reg[k]]

\* strftime('%Y-%m-%d %H:%M:%S'): the timestamp cut to whole seconds.
strftime(ts) == ts \div 2

\* A summary that is the session object itself.
get_info_dict_live(o, s) == [ref |-> o]

\* ClientSession.get_info_dict of the object o whose fields are s.
get_info_dict(o, s) ==
    [client_id |-> s.client_id, session_id |-> s.session_id, address |-> s.address,
     connected |-> s.connected, registered_at |-> strftime(s.registered_at),
     last_activity |-> strftime(s.last_activity)]

\* ClientSession(session_id=..., client_id=..., ...): the thread constructs its
\* session; connected defaults to True, both timestamps to datetime.now().
ConstructSession(t, client_id) ==
    /\ tpc[t] = "new"
    /\ objs' = [objs EXCEPT ![t] =
          [exists |-> TRUE, client_id |-> client_id,
           session_id |-> "SESSION-" \o ToString(t), address |-> "ADDR-" \o ToString(t),
           connected |-> TRUE, registered_at |-> 0, last_activity |-> 0]]
    /\ tpc' = [tpc EXCEPT ![t] = "idle"]
    /\ UNCHANGED <<sessions, serverVars, codecVars, clientVars, idVars, lock, targ, tlocal, tret, added, npop, seen, tcalls>>

\* A thread calls a SessionManager method: add_session with its own session
\* (once), the others with any client_id.
RegistryCall(t, op, key) ==
    /\ tpc[t] = "idle"
    /\ tcalls[t] < MaxCalls
    /\ op = "add_session" => (added[t] = "no" /\ key = objs[t].client_id)
    /\ op \in {"list_sessions", "get_session_count", "get_all_client_ids"} => key = None
    /\ op \in {"remove_session", "get_session", "mark_disconnected"} => key \in RegistryKeys
    /\ targ' = [targ EXCEPT ![t] = [op |-> op, key |-> key]]
    /\ tcalls' = [tcalls EXCEPT ![t] = @ + 1]
    /\ tpc' = [tpc EXCEPT ![t] = "acquire"]
    /\ UNCHANGED <<sessions, serverVars, codecVars, clientVars, idVars, lock, tlocal, tret, objs, added, npop, seen>>

\* `with self._lock:` entered.
LockAcquire(t) ==
    /\ tpc[t] = "acquire"
    /\ lock_acquirable(lock)
    /\ lock' = t
    /\ tpc' = [tpc EXCEPT ![t] =
          CASE targ[t].op = "add_session" -> "add_check"
            [] targ[t].op = "remove_session" -> "pop"
            [] targ[t].op = "get_session" -> "get"
            [] targ[t].op = "list_sessions" -> "iter_begin"
            [] targ[t].op = "get_session_count" -> "len"
            [] targ[t].op = "mark_disconnected" -> "mark_get"
            [] OTHER -> "keys"]
    /\ UNCHANGED <<sessions, serverVars, codecVars, clientVars, idVars, targ, tlocal, tret, objs, added, npop, seen, tcalls>>

\* add_session: `if session.client_id in self._sessions`
AddSessionCheck(t) ==
    /\ tpc[t] = "add_check"
    /\ tlocal' = [tlocal EXCEPT ![t].found = targ[t].key \in DOMAIN sessions]
    /\ tpc' = [tpc EXCEPT ![t] = "add_store"]
    /\ UNCHANGED <<sessions, serverVars, codecVars, clientVars, idVars, lock, targ, tret, objs, added, npop, seen, tcalls>>

\* add_session: `return False`, or `self._sessions[session.client_id] = session`
\* and `return True`.
AddSessionStore(t) ==
    /\ tpc[t] = "add_store"
    /\ IF tlocal[t].found
          THEN /\ tret' = [tret EXCEPT ![t] = [op |-> "add_session", value |-> FALSE]]
               /\ added' = [added EXCEPT ![t] = "rejected"]
               /\ UNCHANGED sessions
          ELSE /\ sessions' = dict_setitem(sessions, targ[t].key, t)
               /\ tret' = [tret EXCEPT ![t] = [op |-> "add_session", value |-> TRUE]]
               /\ added' = [added EXCEPT ![t] = "accepted"]
    /\ tpc' = [tpc EXCEPT ![t] = "release"]
    /\ UNCHANGED <<serverVars, codecVars, clientVars, idVars, lock, targ, tlocal, objs, npop, seen, tcalls>>

\* remove_session: `return self._sessions.pop(client_id, None)`
RemoveSessionPop(t) ==
    /\ tpc[t] = "pop"
    /\ LET r == remove_session(sessions, targ[t].key) IN
         /\ sessions' = r.reg
         /\ tret' = [tret EXCEPT ![t] =
               [op |-> "remove_session", key |-> targ[t].key, value |-> r.removed]]
         /\ npop' = IF r.removed = NoHandler THEN npop
                    ELSE [npop EXCEPT ![r.removed] = @ + 1]
    /\ tpc' = [tpc EXCEPT ![t] = "release"]
    /\ UNCHANGED <<serverVars, codecVars, clientVars, idVars, lock, targ, tlocal, objs, added, seen, tcalls>>

\* get_session: `return self._sessions.get(client_id)`
GetSession(t) ==
    /\ tpc[t] = "get"
    /\ tret' = [tret EXCEPT ![t] =
          [op |-> "get_session", value |-> get_session(sessions, targ[t].key)]]
    /\ tpc' = [tpc EXCEPT ![t] = "release"]
    /\ UNCHANGED <<sessions, serverVars, codecVars, clientVars, idVars, lock, targ, tlocal, objs, added, npop, seen, tcalls>>

\* list_sessions: the comprehension starts iterating self._sessions.values().
ListSessionsBegin(t) ==
    /\ tpc[t] = "iter_begin"
    /\ seen' = [seen EXCEPT ![t] = DOMAIN sessions]
    /\ tpc' = [tpc EXCEPT ![t] = "iter_end"]
    /\ UNCHANGED <<sessions, serverVars, codecVars, clientVars, idVars, lock, targ, tlocal, tret, objs, added, npop, tcalls>>

\* list_sessions: the comprehension ends and the list of get_info_dict() values
\* is returned; a dictionary that changed size during the iteration raises
\* RuntimeError.
ListSessionsEnd(t) ==
    /\ tpc[t] = "iter_end"
    /\ tret' = [tret EXCEPT ![t] =
          IF DOMAIN sessions # seen[t]
             THEN [op |-> "list_sessions_raised"]
             ELSE [op |-> "list_sessions",
                   value |-> {get_info_dict(sessions[k], objs[sessions[k]]) : k \in seen[t]}]]
    /\ seen' = [seen EXCEPT ![t] = {}]
    /\ tpc' = [tpc EXCEPT ![t] = "release"]
    /\ UNCHANGED <<sessions, serverVars, codecVars, clientVars, idVars, lock, targ, tlocal, objs, added, npop, tcalls>>

\* get_session_count: `return len(self._sessions)`
GetSessionCount(t) ==
    /\ tpc[t] = "len"
    /\ tret' = [tret EXCEPT ![t] =
          [op |-> "get_session_count", value |-> get_session_count(sessions)]]
    /\ tpc' = [tpc EXCEPT ![t] = "release"]
    /\ UNCHANGED <<sessions, serverVars, codecVars, clientVars, idVars, lock, targ, tlocal, objs, added, npop, seen, tcalls>>

\* mark_disconnected: `session = self._sessions.get(client_id)`
MarkDisconnectedGet(t) ==
    /\ tpc[t] = "mark_get"
    /\ tlocal' = [tlocal EXCEPT ![t].session = get_session(sessions, targ[t].key)]
    /\ tpc' = [tpc EXCEPT ![t] = "mark_set"]
    /\ UNCHANGED <<sessions, serverVars, codecVars, clientVars, idVars, lock, targ, tret, objs, added, npop, seen, tcalls>>

\* mark_disconnected: `if session: session.connected = False; return True`,
\* else `return False`.
MarkDisconnectedSet(t) ==
    /\ tpc[t] = "mark_set"
    /\ IF tlocal[t].session # NoHandler
          THEN /\ objs' = [objs EXCEPT ![tlocal[t].session].connected = FALSE]
               /\ tret' = [tret EXCEPT ![t] = [op |-> "mark_disconnected", value |-> TRUE]]
          ELSE /\ tret' = [tret EXCEPT ![t] = [op |-> "mark_disconnected", value |-> FALSE]]
               /\ UNCHANGED objs
    /\ tlocal' = [tlocal EXCEPT ![t].session = NoThread]
    /\ tpc' = [tpc EXCEPT ![t] = "release"]
    /\ UNCHANGED <<sessions, serverVars, codecVars, clientVars, idVars, lock, targ, added, npop, seen, tcalls>>

\* get_all_client_ids: `return list(self._sessions.keys())`
GetAllClientIds(t) ==
    /\ tpc[t] = "keys"
    /\ tret' = [tret EXCEPT ![t] =
          [op |-> "get_all_client_ids", value |-> get_all_client_ids(sessions)]]
    /\ tpc' = [tpc EXCEPT ![t] = "release"]
    /\ UNCHANGED <<sessions, serverVars, codecVars, clientVars, idVars, lock, targ, tlocal, objs, added, npop, seen, tcalls>>

\* The `with` block is left: the lock is released and the method returns.
LockRelease(t) ==
    /\ tpc[t] = "release"
    /\ lock' = NoThread
    /\ tlocal' = [tlocal EXCEPT ![t] = NoLocals]
    /\ tpc' = [tpc EXCEPT ![t] = "idle"]
    /\ UNCHANGED <<sessions, serverVars, codecVars, clientVars, idVars, targ, tret, objs, added, npop, seen, tcalls>>

\* Some caller holds a list that list_sessions returned.  The handlers' own
\* writes to their sessions are followed from then on.
SnapshotHeld == \E u \in Threads : tret[u].op = "list_sessions" /\ tret[u].value # {}

\* ClientSession.update_activity, by the session's handler (no lock).
UpdateActivity(t, now) ==
    /\ objs[t].exists
    /\ SnapshotHeld
    /\ now > objs[t].last_activity
    /\ objs' = [objs EXCEPT ![t].last_activity = now]
    /\ UNCHANGED <<sessions, serverVars, codecVars, clientVars, idVars, lock, tpc, targ, tlocal, tret, added, npop, seen, tcalls>>

\* `session.connected = False`, by the session's handler in its cleanup (no lock).
ClearConnected(t) ==
    /\ objs[t].exists
    /\ SnapshotHeld
    /\ objs[t].connected
    /\ objs' = [objs EXCEPT ![t].connected = FALSE]
    /\ UNCHANGED <<sessions, serverVars, codecVars, clientVars, idVars, lock, tpc, targ, tlocal, tret, added, npop, seen, tcalls>>

RegistryThread(t) ==
    \/ \E client_id \in RegistryKeys : ConstructSession(t, client_id)
    \/ \E op \in RegistryOps, key \in RegistryKeys \cup {None} : RegistryCall(t, op, key)
    \/ LockAcquire(t)
    \/ AddSessionCheck(t)
    \/ AddSessionStore(t)
    \/ RemoveSessionPop(t)
    \/ GetSession(t)
    \/ ListSessionsBegin(t)
    \/ ListSessionsEnd(t)
    \/ GetSessionCount(t)
    \/ MarkDisconnectedGet(t)
    \/ MarkDisconnectedSet(t)
    \/ GetAllClientIds(t)
    \/ LockRelease(t)
    \/ \E now \in 1..MaxTicks : UpdateActivity(t, now)
    \/ ClearConnected(t)

NextRegistry == \E t \in Threads : RegistryThread(t)

\* The SessionManager under concurrent callers.
SpecRegistry == Init /\ [][NextRegistry]_vars

\* ------------------------------------------------------------------ protocol.py, byte by byte
\* Bound on the number of key/value pairs of a message_dict.
MaxPairs == 2
\* Bound on the number of writes made to the stream.
MaxWrites == 2

\* config.LENGTH_PREFIX_SIZE.
LENGTH_PREFIX_SIZE == 4
\* config.MAX_MESSAGE_SIZE (100 MB in config.py), scaled so that the messages
\* of the model encode to less than, exactly, and more than the limit.
MAX_MESSAGE_SIZE == 16
\* message_length > 0xFFFFFFFF, the range of the 4-byte length field, written
\* with 16-bit halves (0xFFFFFFFF itself is beyond the integers of the checker).
exceeds_uint32(message_length) == message_length \div 65536 > 65535

\* A Python str is the sequence of its code points; bytes are a sequence of
\* integers 0..255.  A JSON value of a message is a str or an int; a document a
\* peer writes may also hold null, true, false, lists and nested mappings.
StrVal(s) == [t |-> "str", s |-> s, n |-> 0, e |-> << >>]
IntVal(n) == [t |-> "int", s |-> << >>, n |-> n, e |-> << >>]
NullVal == [t |-> "null", s |-> << >>, n |-> 0, e |-> << >>]
BoolVal(b) == [t |-> "bool", s |-> << >>, n |-> IF b THEN 1 ELSE 0, e |-> << >>]
ListVal(elements) == [t |-> "list", s |-> << >>, n |-> 0, e |-> elements]
DictVal(items) == [t |-> "dict", s |-> << >>, n |-> 0, e |-> items]
\* A dict is the sequence of its items in insertion order, keys distinct.
CodecKeys == {<<97>>, << >>}
CodecValues == {StrVal(<< >>), StrVal(<<97, 34>>), StrVal(<<233, 92>>),
                IntVal(0), IntVal(12), IntVal(-3)}
CodecItems == [key : CodecKeys, value : CodecValues]
Messages ==
    {m \in UNION {[1..n -> CodecItems] : n \in 0..MaxPairs} :
        \A i, j \in 1..Len(m) : m[i].key = m[j].key => i = j}
\* dict equality: the same keys with the same values, whatever the order.
ItemsOf(m) == {<<m[i].key, m[i].value>> : i \in 1..Len(m)}

\* d[key] = value
RECURSIVE dict_put(_, _, _)
dict_put(d, key, value) ==
    IF d = << >> THEN <<[key |-> key, value |-> value]>>
    ELSE IF Head(d).key = key THEN <<[key |-> key, value |-> value]>> \o Tail(d)
    ELSE <<Head(d)>> \o dict_put(Tail(d), key, value)

\* ---- json.dumps (ensure_ascii, separators ", " and ": ")
RECURSIVE int_digits(_)
int_digits(n) ==
    IF n < 10 THEN <<48 + n>> ELSE int_digits(n \div 10) \o <<48 + (n % 10)>>
dumps_int(n) == IF n < 0 THEN <<45>> \o int_digits(-n) ELSE int_digits(n)
hex_digit(d) == IF d < 10 THEN 48 + d ELSE 87 + d
dumps_char_unescaped(c) == <<c>>
dumps_char(c) ==
    CASE c = 34 -> <<92, 34>>
      [] c = 92 -> <<92, 92>>
      [] c = 8  -> <<92, 98>>
      [] c = 9  -> <<92, 116>>
      [] c = 10 -> <<92, 110>>
      [] c = 12 -> <<92, 102>>
      [] c = 13 -> <<92, 114>>
      [] c \notin {8, 9, 10, 12, 13, 34, 92} /\ (c < 32 \/ c > 127) ->
            <<92, 117, hex_digit((c \div 4096) % 16), hex_digit((c \div 256) % 16),
              hex_digit((c \div 16) % 16), hex_digit(c % 16)>>
      [] OTHER -> <<c>>
RECURSIVE dumps_chars(_)
dumps_chars(s) ==
    IF s = << >> THEN << >> ELSE dumps_char(Head(s)) \o dumps_chars(Tail(s))
dumps_str(s) == <<34>> \o dumps_chars(s) \o <<34>>
dumps_value(v) == IF v.t = "str" THEN dumps_str(v.s) ELSE dumps_int(v.n)
RECURSIVE dumps_items(_)
dumps_items(d) ==
    IF d = << >> THEN << >>
    ELSE dumps_str(Head(d).key) \o <<58, 32>> \o dumps_value(Head(d).value)
            \o (IF Tail(d) = << >> THEN << >> ELSE <<44, 32>> \o dumps_items(Tail(d)))
json_dumps(d) == <<123>> \o dumps_items(d) \o <<125>>

\* ---- str.encode('utf-8') and bytes.decode('utf-8'), code points below 0x10000
RECURSIVE utf8_encode(_)
utf8_encode(s) ==
    IF s = << >> THEN << >>
    ELSE LET c == Head(s) IN
         (IF c < 128 THEN <<c>>
          ELSE IF c < 2048 THEN <<192 + (c \div 64), 128 + (c % 64)>>
          ELSE <<224 + (c \div 4096), 128 + ((c \div 64) % 64), 128 + (c % 64)>>)
            \o utf8_encode(Tail(s))
Continuation(b, i) == i <= Len(b) /\ b[i] \in 128..191
\* [ok |-> FALSE] stands for UnicodeDecodeError.
RECURSIVE utf8_decode_from(_, _, _)
utf8_decode_from(b, i, acc) ==
    IF i > Len(b) THEN [ok |-> TRUE, value |-> acc]
    ELSE IF b[i] < 128 THEN utf8_decode_from(b, i + 1, acc \o <<b[i]>>)
    ELSE IF b[i] \in 194..223 /\ Continuation(b, i + 1)
        THEN utf8_decode_from(b, i + 2, acc \o <<(b[i] - 192) * 64 + (b[i + 1] - 128)>>)
    ELSE IF /\ b[i] \in 224..239
            /\ Continuation(b, i + 1)
            /\ Continuation(b, i + 2)
            /\ (b[i] = 224 => b[i + 1] >= 160)
            /\ (b[i] = 237 => b[i + 1] < 160)
        THEN utf8_decode_from(b, i + 3,
                 acc \o <<(b[i] - 224) * 4096 + (b[i + 1] - 128) * 64 + (b[i + 2] - 128)>>)
    ELSE [ok |-> FALSE, value |-> << >>]
utf8_decode(b) == utf8_decode_from(b, 1, << >>)

\* ---- json.loads, for documents without fractions and exponents
\* A parse step gives [ok, pos, value]: pos is the index after what was read;
\* ok = FALSE stands for JSONDecodeError.
ParseError == [ok |-> FALSE, pos |-> 0, value |-> << >>]
Parsed(pos, value) == [ok |-> TRUE, pos |-> pos, value |-> value]
IsDigit(c) == c \in 48..57
RECURSIVE skip_ws(_, _)
skip_ws(s, i) ==
    IF i <= Len(s) /\ s[i] \in {32, 9, 10, 13} THEN skip_ws(s, i + 1) ELSE i
hex_value(c) ==
    IF c \in 48..57 THEN c - 48
    ELSE IF c \in 97..102 THEN c - 87
    ELSE IF c \in 65..70 THEN c - 55
    ELSE -1
RECURSIVE scan_string(_, _, _)
scan_string(s, i, acc) ==
    IF i > Len(s) THEN ParseError
    ELSE IF s[i] = 34 THEN Parsed(i + 1, acc)
    ELSE IF s[i] = 92 THEN
        IF i + 1 > Len(s) THEN ParseError
        ELSE LET e == s[i + 1] IN
             CASE e = 34  -> scan_string(s, i + 2, acc \o <<34>>)
               [] e = 92  -> scan_string(s, i + 2, acc \o <<92>>)
               [] e = 47  -> scan_string(s, i + 2, acc \o <<47>>)
               [] e = 98  -> scan_string(s, i + 2, acc \o <<8>>)
               [] e = 102 -> scan_string(s, i + 2, acc \o <<12>>)
               [] e = 110 -> scan_string(s, i + 2, acc \o <<10>>)
               [] e = 114 -> scan_string(s, i + 2, acc \o <<13>>)
               [] e = 116 -> scan_string(s, i + 2, acc \o <<9>>)
               [] e = 117 ->
                    IF \/ i + 5 > Len(s)
                       \/ \E k \in 2..5 : hex_value(s[i + k]) = -1
                    THEN ParseError
                    ELSE scan_string(s, i + 6,
                            acc \o <<hex_value(s[i + 2]) * 4096 + hex_value(s[i + 3]) * 256
                                     + hex_value(s[i + 4]) * 16 + hex_value(s[i + 5])>>)
               [] OTHER   -> ParseError
    ELSE IF s[i] < 32 THEN ParseError
    ELSE scan_string(s, i + 1, acc \o <<s[i]>>)
parse_string(s, i) ==
    IF i <= Len(s) /\ s[i] = 34 THEN scan_string(s, i + 1, << >>) ELSE ParseError
RECURSIVE scan_digits(_, _, _)
scan_digits(s, i, acc) ==
    IF i <= Len(s) /\ IsDigit(s[i]) THEN scan_digits(s, i + 1, acc * 10 + (s[i] - 48))
    ELSE Parsed(i, acc)
\* An integer literal: -?(0|[1-9][0-9]*) not followed by a fraction or an exponent.
parse_int(s, i) ==
    LET j == IF s[i] = 45 THEN i + 1 ELSE i IN
    IF j > Len(s) \/ ~IsDigit(s[j]) THEN ParseError
    ELSE LET r == IF s[j] = 48 THEN Parsed(j + 1, 0) ELSE scan_digits(s, j, 0) IN
         IF r.pos <= Len(s) /\ s[r.pos] \in {46, 69, 101} \cup 48..57 THEN ParseError
         ELSE Parsed(r.pos, IntVal(IF j > i THEN 0 - r.value ELSE r.value))
\* The literal (null, true, false) stands at index i.
HasLiteral(s, i, literal) ==
    /\ i + Len(literal) - 1 <= Len(s)
    /\ SubSeq(s, i, i + Len(literal) - 1) = literal
RECURSIVE parse_value(_, _)
RECURSIVE parse_members(_, _, _)
parse_members(s, i, acc) ==
    LET k == parse_string(s, i) IN
    IF ~k.ok THEN ParseError
    ELSE LET c == skip_ws(s, k.pos) IN
         IF c > Len(s) \/ s[c] # 58 THEN ParseError
         ELSE LET v == parse_value(s, skip_ws(s, c + 1)) IN
              IF ~v.ok THEN ParseError
              ELSE LET d == dict_put(acc, k.value, v.value)
                       e == skip_ws(s, v.pos) IN
                   IF e > Len(s) THEN ParseError
                   ELSE IF s[e] = 125 THEN Parsed(e + 1, d)
                   ELSE IF s[e] = 44 THEN parse_members(s, skip_ws(s, e + 1), d)
                   ELSE ParseError
parse_object(s, i) ==
    LET j == skip_ws(s, i + 1) IN
    IF j <= Len(s) /\ s[j] = 125 THEN Parsed(j + 1, << >>)
    ELSE parse_members(s, j, << >>)
RECURSIVE parse_elements(_, _, _)
parse_elements(s, i, acc) ==
    LET v == parse_value(s, i) IN
    IF ~v.ok THEN ParseError
    ELSE LET e == skip_ws(s, v.pos) IN
         IF e > Len(s) THEN ParseError
         ELSE IF s[e] = 93 THEN Parsed(e + 1, Append(acc, v.value))
         ELSE IF s[e] = 44 THEN parse_elements(s, skip_ws(s, e + 1), Append(acc, v.value))
         ELSE ParseError
parse_array(s, i) ==
    LET j == skip_ws(s, i + 1) IN
    IF j <= Len(s) /\ s[j] = 93 THEN Parsed(j + 1, << >>)
    ELSE parse_elements(s, j, << >>)
parse_value(s, i) ==
    IF i > Len(s) THEN ParseError
    ELSE IF s[i] = 34
        THEN LET r == parse_string(s, i) IN
             IF r.ok THEN Parsed(r.pos, StrVal(r.value)) ELSE ParseError
    ELSE IF s[i] = 123
        THEN LET r == parse_object(s, i) IN
             IF r.ok THEN Parsed(r.pos, DictVal(r.value)) ELSE ParseError
    ELSE IF s[i] = 91
        THEN LET r == parse_array(s, i) IN
             IF r.ok THEN Parsed(r.pos, ListVal(r.value)) ELSE ParseError
    ELSE IF s[i] = 45 \/ IsDigit(s[i]) THEN parse_int(s, i)
    ELSE IF HasLiteral(s, i, <<110, 117, 108, 108>>) THEN Parsed(i + 4, NullVal)
    ELSE IF HasLiteral(s, i, <<116, 114, 117, 101>>) THEN Parsed(i + 4, BoolVal(TRUE))
    ELSE IF HasLiteral(s, i, <<102, 97, 108, 115, 101>>) THEN Parsed(i + 5, BoolVal(FALSE))
    ELSE ParseError
\* json.loads(s): what receive_message then returns.
\*   "dict"   a mapping
\*   "other"  a value that is neither a mapping nor None (list, str, int, bool)
\*   "none"   None: JSONDecodeError was raised, or the document is null
json_loads(s) ==
    LET r == parse_value(s, skip_ws(s, 1)) IN
    IF ~r.ok \/ skip_ws(s, r.pos) <= Len(s) THEN [tag |-> "none"]
    ELSE IF r.value.t = "dict" THEN [tag |-> "dict", msg |-> r.value.e]
    ELSE IF r.value.t = "null" THEN [tag |-> "none"]
    ELSE [tag |-> "other"]

\* ---- struct.pack('!I', n) and struct.unpack('!I', b)[0]
struct_pack(n) ==
    <<(n \div 16777216) % 256, (n \div 65536) % 256, (n \div 256) % 256, n % 256>>
struct_unpack(b) == b[1] * 16777216 + b[2] * 65536 + b[3] * 256 + b[4]

\* ---- the stream
\* send_message's two size checks on len(json_bytes).
send_rejects_at_limit(message_length) == message_length >= MAX_MESSAGE_SIZE
send_rejects(message_length) ==
    message_length > MAX_MESSAGE_SIZE \/ exceeds_uint32(message_length)
\* receive_message's check on the declared length.
receive_accepts_any(message_length) == FALSE
receive_rejects(message_length) == message_length > MAX_MESSAGE_SIZE

\* The bytes of one frame: length_prefix + json_bytes.
FrameOf(message_dict) ==
    LET json_bytes == utf8_encode(json_dumps(message_dict)) IN
    struct_pack(Len(json_bytes)) \o json_bytes
RECURSIVE FramesOf(_)
FramesOf(ms) == IF ms = << >> THEN << >> ELSE FrameOf(Head(ms)) \o FramesOf(Tail(ms))

\* protocol.send_message(sock, message_dict): one call.  sendall on a stream
\* the peer has closed raises OSError and the call returns False.
SendMessage(message_dict) ==
    /\ nsends + nraw < MaxWrites
    /\ nsends' = nsends + 1
    /\ smsg' = message_dict
    /\ LET json_str == json_dumps(message_dict)
           json_bytes == utf8_encode(json_str)
           message_length == Len(json_bytes)
           length_prefix == struct_pack(message_length)
       IN  IF send_rejects(message_length) \/ wclosed
             THEN /\ sok' = FALSE
                  /\ UNCHANGED <<wire, outbox>>
             ELSE /\ wire' = wire \o length_prefix \o json_bytes
                  /\ outbox' = Append(outbox, message_dict)
                  /\ sok' = TRUE
    /\ UNCHANGED <<sessions, serverVars, registryVars, clientVars, idVars, rtaken, rbytewise, wclosed, nraw, rpc, rdata, rneed,
                   rlen, rconsumed, rresult>>

\* Bytes a peer writes without send_message: a prefix that declares more than
\* the maximum (alone, or followed by bytes), a prefix of 2^31 - 1, frames whose
\* payloads are 7, [] and null, one whose payload is not UTF-8, an empty frame,
\* half a prefix, a frame that declares two bytes and holds one.
RawWrites ==
    { struct_pack(MAX_MESSAGE_SIZE + 1),
      struct_pack(MAX_MESSAGE_SIZE + 1) \o <<123, 125>>,
      <<127, 255, 255, 255>>,
      struct_pack(1) \o <<55>>,
      struct_pack(2) \o <<91, 93>>,
      struct_pack(4) \o <<110, 117, 108, 108>>,
      struct_pack(1) \o <<255>>,
      struct_pack(0),
      <<0, 0>>,
      struct_pack(2) \o <<55>> }
StreamWrite(bytes) ==
    /\ nsends + nraw < MaxWrites
    /\ ~wclosed
    /\ nraw' = nraw + 1
    /\ wire' = wire \o bytes
    /\ UNCHANGED <<sessions, serverVars, registryVars, clientVars, idVars, rtaken, rbytewise, wclosed, outbox, smsg, sok, nsends, rpc,
                   rdata, rneed, rlen, rconsumed, rresult>>
\* The peer closes the stream: recv on the drained stream then returns b''.
StreamClose ==
    /\ ~wclosed
    /\ wclosed' = TRUE
    /\ UNCHANGED <<sessions, serverVars, registryVars, clientVars, idVars, rtaken, rbytewise, wire, nraw, outbox, smsg, sok,
                   nsends, rpc, rdata, rneed, rlen, rconsumed, rresult>>

\* receive_message: length_bytes = recv_exactly(sock, config.LENGTH_PREFIX_SIZE) begins.
ReceiveMessage ==
    /\ rpc = "idle"
    /\ rpc' = "prefix"
    /\ rdata' = << >>
    /\ rneed' = LENGTH_PREFIX_SIZE
    /\ rlen' = 0
    /\ rconsumed' = 0
    /\ rresult' = NoMessage
    /\ rtaken' = << >>
    /\ rbytewise' = TRUE
    /\ UNCHANGED <<sessions, serverVars, registryVars, clientVars, idVars, wire, wclosed, nraw, outbox, smsg,
                   sok, nsends>>
\* An accumulation that keeps only the last chunk (data = chunk).
bytes_assign(data, chunk) == chunk
\* recv_exactly: data += chunk
bytes_iadd(data, chunk) == data \o chunk

\* recv_exactly, one turn of the loop: chunk = sock.recv(remaining) returns
\* between one and remaining of the bytes that have arrived.
RecvExactly(n) ==
    /\ rpc \in {"prefix", "body"}
    /\ Len(rdata) < rneed
    /\ n <= rneed - Len(rdata)
    /\ n <= Len(wire)
    /\ rdata' = bytes_iadd(rdata, SubSeq(wire, 1, n))
    /\ wire' = SubSeq(wire, n + 1, Len(wire))
    /\ rconsumed' = rconsumed + n
    /\ rtaken' = rtaken \o SubSeq(wire, 1, n)
    /\ rbytewise' = (rbytewise /\ n = 1)
    /\ UNCHANGED <<sessions, serverVars, registryVars, clientVars, idVars, wclosed, nraw, outbox, smsg, sok,
                   nsends, rpc, rneed, rlen, rresult>>
\* A recv_exactly that returns the bytes it has when the stream ends.
recv_exactly_returns_partial(data) == [ok |-> TRUE, data |-> data]
\* recv_exactly on an empty chunk: `if not chunk: return None`.
recv_exactly_closed(data) == [ok |-> FALSE, data |-> << >>]

\* recv_exactly: chunk is b'' (the peer closed): recv_exactly returns None and
\* so does receive_message.  (Were recv_exactly to return bytes, receive_message
\* would go on with them: struct.unpack of fewer than four bytes raises
\* struct.error, a body is decoded.)
RecvExactlyClosed ==
    /\ rpc \in {"prefix", "body"}
    /\ Len(rdata) < rneed
    /\ wire = << >>
    /\ wclosed
    /\ rpc' = "idle"
    /\ LET got == recv_exactly_closed(rdata) IN
         rresult' = IF ~got.ok \/ rpc = "prefix"
                       THEN [tag |-> "none"]
                       ELSE LET json_str == utf8_decode(got.data) IN
                            IF json_str.ok THEN json_loads(json_str.value)
                                           ELSE [tag |-> "none"]
    /\ UNCHANGED <<sessions, serverVars, registryVars, clientVars, idVars, rtaken, rbytewise, wire, wclosed, nraw, outbox, smsg,
                   sok, nsends, rdata, rneed, rlen, rconsumed>>
\* What sock.recv raises in recv_exactly: socket.timeout, or an OSError
\* (ConnectionResetError and BrokenPipeError are OSErrors).
RecvErrors == {"timeout", "connection"}
\* recv_exactly: sock.recv raises: recv_exactly returns None and so does
\* receive_message ("failed": every caller of receive_message gives the
\* connection up on None, and no further receive is made on it).
RecvExactlyError(error) ==
    /\ rpc \in {"prefix", "body"}
    /\ Len(rdata) < rneed
    /\ rpc' = "failed"
    /\ rresult' = [tag |-> "none"]
    /\ UNCHANGED <<sessions, serverVars, registryVars, clientVars, idVars, rtaken, rbytewise, wire, wclosed, nraw, outbox, smsg,
                   sok, nsends, rdata, rneed, rlen, rconsumed>>
\* receive_message: message_length = struct.unpack('!I', length_bytes)[0] and
\* the size check.
ReceiveMessageLength ==
    /\ rpc = "prefix"
    /\ Len(rdata) = rneed
    /\ LET message_length == struct_unpack(rdata) IN
       /\ rlen' = message_length
       /\ IF receive_rejects(message_length)
            THEN /\ rpc' = "idle"
                 /\ rresult' = [tag |-> "none"]
                 /\ UNCHANGED <<rdata, rneed>>
            ELSE /\ rpc' = "body"
                 /\ rdata' = << >>
                 /\ rneed' = message_length
                 /\ UNCHANGED rresult
    /\ UNCHANGED <<sessions, serverVars, registryVars, clientVars, idVars, rtaken, rbytewise, wire, wclosed, nraw, outbox, smsg,
                   sok, nsends, rconsumed>>
\* receive_message: json_str = json_bytes.decode('utf-8'); return json.loads(json_str),
\* None on UnicodeDecodeError or JSONDecodeError.
ReceiveMessageDecode ==
    /\ rpc = "body"
    /\ Len(rdata) = rneed
    /\ LET json_str == utf8_decode(rdata) IN
       rresult' = IF json_str.ok THEN json_loads(json_str.value) ELSE [tag |-> "none"]
    /\ rpc' = "idle"
    /\ outbox' = IF outbox = << >> THEN outbox ELSE Tail(outbox)
    /\ UNCHANGED <<sessions, serverVars, registryVars, clientVars, idVars, rtaken, rbytewise, wire, wclosed, nraw, smsg, sok,
                   nsends, rdata, rneed, rlen, rconsumed>>

NextCodec ==
    \/ \E message_dict \in Messages : SendMessage(message_dict)
    \/ \E bytes \in RawWrites : StreamWrite(bytes)
    \/ StreamClose
    \/ ReceiveMessage
    \/ \E n \in 1..(MAX_MESSAGE_SIZE + LENGTH_PREFIX_SIZE) : RecvExactly(n)
    \/ RecvExactlyClosed
    \/ \E error \in RecvErrors : RecvExactlyError(error)
    \/ ReceiveMessageLength
    \/ ReceiveMessageDecode

\* One stream between send_message and receive_message.
SpecCodec == Init /\ [][NextCodec]_vars

\* ------------------------------------------------------------------ client.py
\* Bound on the number of messages the server sends to the client.
MaxServerMsgs == 2

\* config.CONNECTION_RETRY_DELAY and config.MAX_CONNECTION_RETRIES.
CONNECTION_RETRY_DELAY == 2
MAX_CONNECTION_RETRIES == 3
\* The names config.py defines.
ConfigNames ==
    {"SERVER_HOST", "SERVER_PORT", "BUFFER_SIZE", "LENGTH_PREFIX_SIZE", "MAX_MESSAGE_SIZE",
     "COMMAND_TIMEOUT", "CONNECTION_RETRY_DELAY", "MAX_CONNECTION_RETRIES", "MAX_CLIENTS",
     "CLIENT_TIMEOUT", "LOG_DIRECTORY", "LOG_FILE_PREFIX", "LOG_LEVEL", "LOG_FORMAT",
     "LOG_DATE_FORMAT", "TLS_ENABLED", "TLS_CERTFILE", "TLS_KEYFILE"}
\* config.<name> evaluates (otherwise it raises AttributeError).
config_defines(name) == name \in ConfigNames

\* How one pass through the try block of connect_to_server ends:
\*   "ok"        connect returned (with TLS, the handshake is part of it)
\*   "refused"   ConnectionRefusedError
\*   "ssl_error" ssl.SSLError (handshake or certificate failure)
\*   "gaierror"  socket.gaierror (the hostname does not resolve)
\*   "os_error"  another OSError
\*   "other"     another Exception
ConnectOutcomes == {"ok", "refused", "ssl_error", "gaierror", "os_error", "other"}
\* A treatment of errors that also retries after ssl.SSLError.
is_retried_with_ssl(outcome) == outcome \in {"refused", "os_error", "ssl_error"}
\* The except clauses that end in `retry_count += 1`.
is_retried(outcome) == outcome \in {"refused", "os_error"}
\* A retry test that stops one retry early.
may_retry_below(count) == count < MAX_CONNECTION_RETRIES
\* `retry_count <= config.MAX_CONNECTION_RETRIES`, the loop test and the test
\* before the sleep.
may_retry(count) == count <= MAX_CONNECTION_RETRIES

\* main(): client_socket = connect_to_server(...); retry_count = 0, delay = ...
ClientMain ==
    /\ kpc = "start"
    /\ kentry' = "main"
    /\ retry_count' = 0
    /\ delay' = CONNECTION_RETRY_DELAY
    /\ kpc' = "connect_loop"
    /\ UNCHANGED <<sessions, serverVars, registryVars, codecVars, idVars, koutcomes, ksleeps,
                   ksock, kin, kinclosed, kout, kcommand, kexec, kcmds, nserver>>

\* connect_to_server: `while retry_count <= config.MAX_CONNECTION_RETRIES`, and
\* the `return None` after the loop; main exits when it gets None.
ConnectLoop ==
    /\ kpc = "connect_loop"
    /\ kpc' = IF may_retry(retry_count) THEN "attempt" ELSE "exit"
    /\ UNCHANGED <<sessions, serverVars, registryVars, codecVars, idVars, kentry, retry_count,
                   delay, koutcomes, ksleeps, ksock, kin, kinclosed, kout, kcommand, kexec,
                   kcmds, nserver>>

\* connect_to_server: the try block and its except clauses.
ConnectAttempt(outcome) ==
    /\ kpc = "attempt"
    /\ koutcomes' = Append(koutcomes, outcome)
    /\ IF outcome = "ok"
         THEN /\ ksock' = "socket"
              /\ kpc' = "register"
              /\ UNCHANGED retry_count
         ELSE IF is_retried(outcome)
         THEN /\ retry_count' = retry_count + 1
              /\ kpc' = "retry"
              /\ UNCHANGED ksock
         ELSE /\ kpc' = "exit"
              /\ UNCHANGED <<ksock, retry_count>>
    /\ UNCHANGED <<sessions, serverVars, registryVars, codecVars, idVars, kentry, delay,
                   ksleeps, kin, kinclosed, kout, kcommand, kexec, kcmds, nserver>>

\* connect_to_server, "Retry logic": time.sleep(delay); delay *= 2, or return None.
ConnectRetry ==
    /\ kpc = "retry"
    /\ IF may_retry(retry_count)
         THEN /\ ksleeps' = Append(ksleeps, delay)
              /\ delay' = delay * 2
              /\ kpc' = "connect_loop"
         ELSE /\ kpc' = "exit"
              /\ UNCHANGED <<ksleeps, delay>>
    /\ UNCHANGED <<sessions, serverVars, registryVars, codecVars, idVars, kentry, retry_count,
                   koutcomes, ksock, kin, kinclosed, kout, kcommand, kexec, kcmds, nserver>>

\* send_registration and main's test of its value.  Building
\* registration_message evaluates config.AUTH_TOKEN; an exception is caught by
\* `except Exception` and the function returns False.  On False main closes the
\* socket and exits.
SendRegistration(sendable) ==
    /\ kpc = "register"
    /\ sendable => ~kinclosed
    /\ ~sendable => kinclosed \/ ~config_defines("AUTH_TOKEN")
    /\ LET success == config_defines("AUTH_TOKEN") /\ sendable IN
       /\ kout' = IF success THEN Append(kout, "registration") ELSE kout
       /\ kpc' = IF success THEN "main_recv" ELSE "exit"
    /\ UNCHANGED <<sessions, serverVars, registryVars, codecVars, idVars, kentry, retry_count,
                   delay, koutcomes, ksleeps, ksock, kin, kinclosed, kcommand, kexec, kcmds,
                   nserver>>

\* main_loop(client_socket) called on a connected socket.
MainLoopCall ==
    /\ kpc = "start"
    /\ kentry' = "main_loop"
    /\ ksock' = "socket"
    /\ kpc' = "main_recv"
    /\ UNCHANGED <<sessions, serverVars, registryVars, codecVars, idVars, retry_count, delay,
                   koutcomes, ksleeps, kin, kinclosed, kout, kcommand, kexec, kcmds, nserver>>

\* What the server end writes to the client: Command messages (the command
\* string may be empty), a Command message without a command, a mapping of
\* another type, a value that is not a mapping, bytes that do not decode.
ClientCommandMsgs == [type : {"command"}, command : Commands \cup {""}]
ServerFrames ==
    {[kind |-> "garbage"], [kind |-> "nondict"]}
        \cup [kind : {"dict"}, msg : ClientCommandMsgs \cup OtherMsgs \cup {[type |-> "command"]}]
\* A Command message: type 'command' and a command string.
IsCommandMsg(frame) ==
    /\ frame.kind = "dict"
    /\ msg_get(frame.msg, "type") = "command"
    /\ "command" \in DOMAIN frame.msg

ServerSend(frame) ==
    /\ ksock = "socket"
    /\ kpc # "exit"
    /\ ~kinclosed
    /\ nserver < MaxServerMsgs
    /\ nserver' = nserver + 1
    /\ kin' = Append(kin, frame)
    /\ UNCHANGED <<sessions, serverVars, registryVars, codecVars, idVars, kpc, kentry,
                   retry_count, delay, koutcomes, ksleeps, ksock, kinclosed, kout, kcommand,
                   kexec, kcmds>>
ServerClose ==
    /\ ksock = "socket"
    /\ kpc # "exit"
    /\ ~kinclosed
    /\ kinclosed' = TRUE
    /\ UNCHANGED <<sessions, serverVars, registryVars, codecVars, idVars, kpc, kentry,
                   retry_count, delay, koutcomes, ksleeps, ksock, kin, kout, kcommand, kexec,
                   kcmds, nserver>>

\* main_loop, from the receive to the execution:
\*   "break"    command_message is None
\*   "raise"    .get on a value that is not a mapping raises AttributeError,
\*              caught by the `except Exception` around the loop
\*   "continue" the type is not 'command', or the command is missing or empty
\*   "execute"  execute_command(command)
main_loop_step(command_message) ==
    CASE command_message.tag = "none" -> "break"
      [] command_message.tag = "other" -> "raise"
      [] msg_get(command_message.msg, "type") # "command" -> "continue"
      [] msg_get(command_message.msg, "command") \in {None, ""} -> "continue"
      [] OTHER -> "execute"

\* main_loop: command_message = protocol.receive_message(client_socket) and the
\* checks that follow it.
MainLoopReceive ==
    /\ kpc = "main_recv"
    /\ kin # << >> \/ kinclosed
    /\ LET frame == IF kin # << >> THEN Head(kin) ELSE NoFrame
           step == main_loop_step(receive_message(frame))
       IN  /\ kin' = IF kin # << >> THEN Tail(kin) ELSE kin
           /\ kcmds' = IF IsCommandMsg(frame) THEN kcmds + 1 ELSE kcmds
           /\ kcommand' = IF step = "execute" THEN msg_get(frame.msg, "command") ELSE kcommand
           /\ kpc' = CASE step = "execute" -> "exec"
                       [] step = "continue" -> "main_recv"
                       [] OTHER -> "exit"
    /\ UNCHANGED <<sessions, serverVars, registryVars, codecVars, idVars, kentry, retry_count,
                   delay, koutcomes, ksleeps, ksock, kinclosed, kout, kexec, nserver>>

\* How subprocess.run ends: the command completes (its output may be larger
\* than a message can hold), it exceeds COMMAND_TIMEOUT, or another exception
\* is raised.
RunOutcomes ==
    [kind : {"completed"}, returncode : {0, 1}, stdout : {"out", "huge"}]
        \cup {[kind |-> "timeout"], [kind |-> "raised"]}
\* execute_command: (stdout, stderr, return_code).
execute_command(run) ==
    CASE run.kind = "completed" ->
            [stdout |-> run.stdout, stderr |-> "", return_code |-> run.returncode, ran |-> TRUE]
      [] run.kind = "timeout" ->
            [stdout |-> "", stderr |-> "Command timed out", return_code |-> -1, ran |-> TRUE]
      [] OTHER ->
            [stdout |-> "", stderr |-> "Command execution error", return_code |-> -1,
             ran |-> TRUE]
MainLoopExecute(run) ==
    /\ kpc = "exec"
    /\ kexec' = execute_command(run)
    /\ kpc' = "send_result"
    /\ UNCHANGED <<sessions, serverVars, registryVars, codecVars, idVars, kentry, retry_count,
                   delay, koutcomes, ksleeps, ksock, kin, kinclosed, kout, kcommand, kcmds,
                   nserver>>

\* main_loop: success = send_result(...); `if not success: break`.  send_message
\* refuses a payload above MAX_MESSAGE_SIZE; once the server has closed, sendall
\* fails, or succeeds with the bytes going nowhere.
MainLoopSendResult(success) ==
    /\ kpc = "send_result"
    /\ success => kexec.stdout # "huge"
    /\ ~success => (kinclosed \/ kexec.stdout = "huge")
    /\ kout' = IF success THEN Append(kout, "result") ELSE kout
    /\ kpc' = IF success THEN "main_recv" ELSE "exit"
    /\ kcommand' = None
    /\ kexec' = NoExecution
    /\ UNCHANGED <<sessions, serverVars, registryVars, codecVars, idVars, kentry, retry_count,
                   delay, koutcomes, ksleeps, ksock, kin, kinclosed, kcmds, nserver>>

NextClient ==
    \/ ClientMain
    \/ ConnectLoop
    \/ \E outcome \in ConnectOutcomes : ConnectAttempt(outcome)
    \/ ConnectRetry
    \/ \E sendable \in BOOLEAN : SendRegistration(sendable)
    \/ MainLoopCall
    \/ \E frame \in ServerFrames : ServerSend(frame)
    \/ ServerClose
    \/ MainLoopReceive
    \/ \E run \in RunOutcomes : MainLoopExecute(run)
    \/ \E success \in BOOLEAN : MainLoopSendResult(success)

\* One run of client.py against a server end that does anything.
SpecClient == Init /\ [][NextClient]_vars

\* ------------------------------------------------------------------ generate_session_id
\* Bounds on the clock and on the number of ids generated.
MaxClock == 2
MaxIds == 3
\* The values of uuid.uuid4().hex[:4] (65536 of them), scaled.
RandomSuffixes == 0..1
\* f"SESSION-{timestamp}-{random_suffix}"
format_session_id(timestamp, random_suffix) ==
    "SESSION-" \o ToString(timestamp) \o "-" \o ToString(random_suffix)

\* A second passes.
ClockTick ==
    /\ clock < MaxClock
    /\ clock' = clock + 1
    /\ UNCHANGED <<sessions, serverVars, registryVars, codecVars, clientVars, issued>>
\* generate_session_id(): timestamp = datetime.now().strftime('%Y%m%d%H%M%S'),
\* random_suffix = uuid.uuid4().hex[:4].
GenerateSessionId(random_suffix) ==
    /\ Len(issued) < MaxIds
    /\ issued' = Append(issued, format_session_id(clock, random_suffix))
    /\ UNCHANGED <<sessions, serverVars, registryVars, codecVars, clientVars, clock>>

NextSessionId ==
    \/ ClockTick
    \/ \E random_suffix \in RandomSuffixes : GenerateSessionId(random_suffix)

\* The handlers' calls of generate_session_id as time passes.
SpecSessionId == Init /\ [][NextSessionId]_vars

\* ------------------------------------------------------------------ properties
\* The keys under which the registry holds the session of handler h.
KeysOf(h) == {k \in DOMAIN sessions : sessions[k] = h}
Registered(h) == KeysOf(h) # {}
\* The handler is in its ACTIVE command loop.
Active(h) == hpc[h] \in {"loop", "get", "send", "recv"}
\* The handler is in (or past) its cleanup.
Terminating(h) == hpc[h] \in {"fin_mark", "fin_remove", "fin_close", "done"}
\* The step is a step of handler h.
StepOf(h) == hpc'[h] # hpc[h]

\* C1: per-session failures are local.  The registry removal of a handler's
\* cleanup leaves every entry that maps to another handler's Session in place,
\* mapping to the same Session.
C1_CleanupRemovesOnlyOwnEntry ==
    [][\A h \in Handlers :
         (hpc[h] = "fin_remove" /\ StepOf(h)) =>
            \A k \in DOMAIN sessions :
               sessions[k] # h => (k \in DOMAIN sessions' /\ sessions'[k] = sessions[k])]_vars

\* C2 as stated: the insert of a handler that has constructed its Session always
\* succeeds, and the Session is in the registry afterwards.
C2_InsertAlwaysSucceeds ==
    [][\A h \in Handlers :
         (hpc[h] = "add" /\ StepOf(h)) =>
            (hpc'[h] = "loop" /\ \E k \in DOMAIN sessions' : sessions'[k] = h)]_vars

\* C2 as amended: the insert succeeds exactly when no session is registered under
\* the same client_id; otherwise it is rejected, the registry is left as it was
\* (the registered session is not overwritten) and the handler goes to its
\* cleanup.  The registry never holds two sessions with the same client_id.
C2_InsertRejectsDuplicateClientId ==
    /\ [](\A k1, k2 \in DOMAIN sessions :
            sess[sessions[k1]].client_id = sess[sessions[k2]].client_id => k1 = k2)
    /\ [][\A h \in Handlers :
            (hpc[h] = "add" /\ StepOf(h)) =>
               IF \E g \in Handlers : Registered(g) /\ sess[g].client_id = sess[h].client_id
                  THEN sessions' = sessions /\ hpc'[h] = "fin_mark"
                  ELSE /\ hpc'[h] = "loop"
                       /\ \E k \in DOMAIN sessions' : sessions'[k] = h
                       /\ \A k \in DOMAIN sessions :
                             k \in DOMAIN sessions' /\ sessions'[k] = sessions[k]]_vars

\* C2 witness: a handler whose insert was just rejected, while the session that
\* holds its client_id is live in the registry.
C2_Witness ==
    \E h, g \in Handlers :
       /\ h # g
       /\ hpc[h] = "fin_mark" /\ sess[h].exists /\ sess[h].connected /\ ~Registered(h)
       /\ Registered(g) /\ Active(g) /\ sess[g].client_id = sess[h].client_id

\* C3 as stated: every entry's key equals the session_id of the Session under it.
C3_KeyIsSessionId ==
    \A k \in DOMAIN sessions : k = sess[sessions[k]].session_id

\* C3 as amended: every entry's key equals the client_id of the Session stored
\* under it (and the entry holds a constructed Session).
C3_KeyIsClientId ==
    \A k \in DOMAIN sessions :
       /\ sessions[k] \in Handlers
       /\ sess[sessions[k]].exists
       /\ k = sess[sessions[k]].client_id

\* C3 witness: two sessions are registered.
C3_Witness == Cardinality(DOMAIN sessions) = 2

\* C4: a handler in its command loop has its Session in the registry exactly
\* once, and after the handler has terminated the Session is not in the registry.
C4_RegisteredWhileActive ==
    \A h \in Handlers :
       /\ Active(h) => Cardinality(KeysOf(h)) = 1
       /\ hpc[h] = "done" => ~Registered(h)

\* A received message that is a well-formed Registration with a non-empty
\* client_id.
WellFormedRegistration(message) ==
    /\ message.tag = "dict"
    /\ "type" \in DOMAIN message.msg
    /\ message.msg.type = "registration"
    /\ "client_id" \in DOMAIN message.msg
    /\ message.msg.client_id # ""

\* C5: a handler whose first message is not a well-formed Registration with a
\* non-empty client_id (stream closure, decode failure, another type, missing or
\* empty client_id) goes to its termination without constructing a Session, no
\* step it takes from then on changes the registry, and a handler without a
\* Session is never in the registry.
C5_FailedRegistrationLeavesNoSession ==
    /\ [](\A h \in Handlers : ~sess[h].exists => ~Registered(h))
    /\ [][\A h \in Handlers :
            (/\ StepOf(h)
             /\ \/ hpc[h] = "reg_check" /\ ~WellFormedRegistration(reg_message[h])
                \/ hpc[h] \in {"fin_mark", "fin_close"} /\ ~sess[h].exists)
            => /\ sess'[h] = NoSession
               /\ sessions' = sessions
               /\ hpc'[h] \in {"fin_mark", "fin_close", "done"}]_vars

\* C5 witness: a handler has terminated without a Session while another
\* handler's session is registered.
C5_Witness ==
    \E h, g \in Handlers :
       /\ hpc[h] = "done" /\ ~sess[h].exists /\ cleanups[h] = 1
       /\ Registered(g)

\* C6: the cleanup of a handler runs exactly once, whichever path reached it, and
\* when a handler that constructed a Session has finished, the session's
\* connected flag is false, the session is not in the registry and the
\* connection is closed.
C6_CleanupRunsOnce ==
    \A h \in Handlers :
       /\ cleanups[h] = IF hpc[h] \in {"fin_remove", "fin_close", "done"} THEN 1 ELSE 0
       /\ (hpc[h] = "done" /\ sess[h].exists) =>
             (~sess[h].connected /\ ~Registered(h) /\ sock[h] = "closed")

\* C6 witness: a handler that sent a command has left the loop and finished.
C6_Witness ==
    \E h \in Handlers : hpc[h] = "done" /\ sess[h].exists /\ nsent[h] >= 1

\* C7 as stated: the handler sends a Command only when every Command it sent
\* before on the session has had its Result observed.
C7_NextCommandOnlyAfterResult ==
    [][\A h \in Handlers : nsent'[h] = nsent[h] + 1 => npub[h] = nsent[h]]_vars

\* C7 as amended: the handler sends a Command only when every Command it sent
\* before on the session has been answered by a well-formed reply that it has
\* read: a Result, or a mapping of another type (logged and skipped, nothing
\* published).  At most one Command is unanswered at any time.
C7_NextCommandOnlyAfterReply ==
    /\ [](\A h \in Handlers : nreply[h] <= nsent[h] /\ nsent[h] <= nreply[h] + 1)
    /\ [][\A h \in Handlers : nsent'[h] = nsent[h] + 1 => nreply[h] = nsent[h]]_vars

\* C7 witness: a second Command has been sent after a reply that was not a Result.
C7_Witness ==
    \E h \in Handlers : nsent[h] = 2 /\ nreply[h] >= 1 /\ npub[h] = 0

\* C8: against an agent running main_loop, the k-th Command sent on a session is
\* the k-th command enqueued for it, the k-th result published names the k-th
\* command and is the reply to the Command sent last, and at most one Command is
\* in flight.
C8_ResultsInCommandOrder ==
    /\ [](\A h \in Handlers :
            npub[h] <= nsent[h] /\ nsent[h] <= npub[h] + 1 /\ nsent[h] <= nenq[h])
    /\ [][\A h \in Handlers :
            /\ nsent'[h] = nsent[h] + 1 => command[h] = Cmd(nsent'[h])
            /\ npub'[h] = npub[h] + 1 =>
                  /\ Head(c2s[h]).msg.command = Cmd(npub'[h])
                  /\ Head(c2s[h]).msg.command = command[h]
                  /\ npub'[h] = nsent[h]]_vars

\* C8 witness: two results have been published on one session.
C8_Witness == \E h \in Handlers : npub[h] = 2

\* C9: the listener accepts a connection only while the number of sessions in
\* the registry is below MAX_CLIENTS.
C9_NoAcceptAtCapacity ==
    [][(lpc = "accept" /\ lpc' \in {"wrap", "spawn"}) =>
          get_session_count(sessions) < MAX_CLIENTS]_vars

\* C10: the listener never waits on a client: as long as it has not stopped it
\* has a step of its own to take, so no client can keep it from returning to
\* its capacity check and accept.
C10_ListenerNeverWaitsOnClient ==
    (Running /\ lpc # "stopped") => ENABLED Listener

\* The peer of handler h has closed the connection with nothing left to read
\* while the handler waits for the Result of the command it sent.
DisconnectedMidCommand(h) ==
    hpc[h] = "recv" /\ peerClosed[h] /\ c2s[h] = << >>

\* C11: when the peer closes the connection while the handler waits for a
\* Result, the handler's receive fails and its next step leaves the command loop
\* for the cleanup; a handler in its cleanup sends no further Command and never
\* returns to the loop; neither the failed receive nor any step of the cleanup
\* can block, so the handler runs to its end; and at its end the session is out
\* of the registry with connected = false.
C11_DisconnectMidCommand ==
    /\ [][\A h \in Handlers :
            /\ (DisconnectedMidCommand(h) /\ StepOf(h)) =>
                  (hpc'[h] = "fin_mark" /\ nsent'[h] = nsent[h])
            /\ Terminating(h) => (Terminating(h)' /\ nsent'[h] = nsent[h])]_vars
    /\ [](\A h \in Handlers :
            /\ (Running /\ (DisconnectedMidCommand(h)
                             \/ hpc[h] \in {"fin_mark", "fin_remove", "fin_close"}))
                  => ENABLED Handler(h)
            /\ (hpc[h] = "done" /\ sess[h].exists) =>
                  (~sess[h].connected /\ ~Registered(h)))

\* C11 witness: a handler has finished after its peer closed the connection
\* with a Command unanswered, with no shutdown under way.
C11_Witness ==
    \E h \in Handlers :
       /\ hpc[h] = "done" /\ peerClosed[h] /\ ~shutdown
       /\ nsent[h] = 1 /\ nreply[h] = 0 /\ sess[h].exists

\* C12: once the shutdown sequence has run (signal set, listener stopped, live
\* connections closed, main returned), no session is registered with an open
\* connection: every session still in the registry has had its connection
\* closed and its connected flag cleared, so that its handler is driven to its
\* cleanup, whatever the interleaving of registrations with the sequence.
C12_ShutdownClosesEverySession ==
    (mpc = "exited" /\ lpc = "stopped") =>
       \A h \in Handlers : Registered(h) => (sock[h] = "closed" /\ ~sess[h].connected)

\* The listener has finished with connection h: it accepted it and has gone on
\* from its handshake and spawn steps.
HandledByListener(h) == conn[h] = "accepted" /\ lconn # h

\* The safety half of C13: the listener leaves its loop test to "stopped" exactly
\* when the signal is set, stays stopped and spawns nothing from then on; every
\* accept attempt starts from a loop test that saw no signal, so at most one
\* attempt follows the signal; a handler is started only by the listener's
\* spawn step for the connection it has just accepted, once per connection, and
\* every connection the listener has finished with whose handshake succeeded
\* has its handler.
C13_ListenerSteps ==
    /\ [][/\ (lpc = "loop" /\ lpc' # "loop") =>
               lpc' = (IF shutdown THEN "stopped" ELSE "check")
          /\ lpc = "stopped" =>
               (lpc' = "stopped"
                /\ \A h \in Handlers : hpc[h] = "none" => hpc'[h] = "none")
          /\ (lpc' = "check" /\ lpc # "check") => (lpc = "loop" /\ ~shutdown)
          /\ (lpc' = "accept" /\ lpc # "accept") => lpc = "check"
          /\ \A h \in Handlers :
               (hpc[h] = "none" /\ hpc'[h] # "none") =>
                  (lpc = "spawn" /\ lconn = h /\ hpc'[h] = "start" /\ lpc' = "loop")
          /\ \A h \in Handlers : hpc[h] # "none" => hpc'[h] # "none"]_vars
    /\ [](\A h \in Handlers :
            (HandledByListener(h) /\ (TLS_ENABLED => hs[h] = "ok")) => hpc[h] # "none")

\* C13: the listener runs until the signal is raised and then stops after at
\* most one further accept attempt, spawning one handler for each connection it
\* accepted and returning to its loop test: the steps above, and the listener
\* can always take its next step towards the loop test, where it observes the
\* signal.
C13_ListenerStopsOnSignal ==
    /\ C13_ListenerSteps
    /\ []((Running /\ shutdown /\ lpc # "stopped") => ENABLED Listener)

\* The threads whose add_session has returned (accepted or rejected).
Inserted == {o \in Threads : added[o] # "no"}
Accepted == {o \in Threads : added[o] = "accepted"}

C15_ConcurrentRemoveOnce ==
    /\ [][\A t \in Threads :
            (tpc[t] = "pop" /\ tpc'[t] = "release") =>
               /\ tret'[t].value = get_session(sessions, targ[t].key)
               /\ targ[t].key \notin DOMAIN sessions']_vars
    /\ [](\A o \in Threads : npop[o] <= 1 /\ (npop[o] = 1 => added[o] = "accepted"))

\* C15 witness: two threads have returned from remove_session of the same key,
\* one with the session and one with None.
C15_Witness ==
    \E t1, t2 \in Threads :
       /\ t1 # t2 /\ tpc[t1] = "idle" /\ tpc[t2] = "idle"
       /\ tret[t1].op = "remove_session" /\ tret[t2].op = "remove_session"
       /\ tret[t1].key = tret[t2].key
       /\ tret[t1].value # NoHandler /\ tret[t2].value = NoHandler

\* The thread is inside a `with self._lock:` block.
InCritical(t) == tpc[t] \notin {"new", "idle", "acquire"}

\* C16: at most one thread is inside a registry method's critical section, and
\* it is the holder of the lock; what a method read from the dictionary earlier
\* in its critical section is still true of the dictionary at its later
\* statements (no other thread's insert or remove falls in between); and the
\* number of entries equals the accepted inserts minus the successful removes.
C16_RegistryMutualExclusion ==
    /\ Cardinality({t \in Threads : InCritical(t)}) <= 1
    /\ \A t \in Threads : InCritical(t) <=> lock = t
    /\ \A t \in Threads :
          /\ tpc[t] = "add_store" => (tlocal[t].found <=> targ[t].key \in DOMAIN sessions)
          /\ tpc[t] = "iter_end" => seen[t] = DOMAIN sessions
          /\ tpc[t] = "mark_set" => tlocal[t].session = get_session(sessions, targ[t].key)
    /\ get_session_count(sessions) = Cardinality(Accepted) - SumOver(npop, Threads)

\* C16 witness: a thread is between the check and the store of add_session
\* while another thread waits for the lock to remove a session.
C16_Witness ==
    \E t1, t2 \in Threads :
       /\ tpc[t1] = "add_store" /\ ~tlocal[t1].found
       /\ tpc[t2] = "acquire" /\ targ[t2].op = "remove_session"
       /\ DOMAIN sessions # {}

SummaryFields ==
    {"client_id", "session_id", "address", "connected", "registered_at", "last_activity"}

\* What the operator sees when the summary e is rendered while the session
\* objects are as in heap: the fields of a copy, or the current fields of the
\* object when e is the live object.
Rendered(e, heap) ==
    IF "ref" \in DOMAIN e
       THEN [client_id |-> heap[e.ref].client_id, session_id |-> heap[e.ref].session_id,
             address |-> heap[e.ref].address, connected |-> heap[e.ref].connected,
             registered_at |-> strftime(heap[e.ref].registered_at),
             last_activity |-> strftime(heap[e.ref].last_activity)]
       ELSE e

\* C17: a list returned by list_sessions holds only display fields, never a
\* live session object; when it is returned it has exactly one summary per
\* registry entry, showing that entry's session as it is then, and taking it
\* changes neither the registry nor any session; and whatever happens later
\* (insert, remove, a handler's write to connected or last_activity), a list
\* already returned renders the same.
C17_SnapshotIsCopy ==
    /\ [](\A t \in Threads :
            tret[t].op = "list_sessions" =>
               \A e \in tret[t].value : DOMAIN e = SummaryFields)
    /\ [][\A t \in Threads :
            /\ (tpc[t] = "iter_end" /\ tpc'[t] = "release") =>
                  /\ sessions' = sessions /\ objs' = objs
                  /\ tret'[t].op = "list_sessions"
                  /\ Cardinality(tret'[t].value) = Cardinality(DOMAIN sessions)
                  /\ \A k \in DOMAIN sessions :
                        \E e \in tret'[t].value :
                           /\ e.client_id = k
                           /\ Rendered(e, objs) = Rendered([ref |-> sessions[k]], objs)
            /\ (tret[t].op = "list_sessions" /\ tret'[t] = tret[t]) =>
                  {Rendered(e, objs') : e \in tret[t].value}
                     = {Rendered(e, objs) : e \in tret[t].value}]_vars

\* C17 witness: a returned list shows a session connected and with its first
\* last_activity, the session has since been marked disconnected and its
\* activity updated, and its entry has been removed.
C17_Witness ==
    \E t, o \in Threads :
       /\ tret[t].op = "list_sessions" /\ tpc[t] = "idle"
       /\ \E e \in tret[t].value :
             /\ e.session_id = objs[o].session_id
             /\ e.connected /\ ~objs[o].connected
             /\ e.last_activity # strftime(objs[o].last_activity)
       /\ npop[o] = 1


\* Every byte on the stream was written by send_message.
OnlySent == nraw = 0
\* The step is receive_message returning what it decoded from a complete body.
DecodeStep == rpc = "body" /\ Len(rdata) = rneed /\ rpc' = "idle"

\* C18: framing round-trip.  On a stream written only by send_message,
\* receive_message returns for each frame a mapping with the same keys and
\* values as the message that was sent, having consumed exactly the bytes of
\* that frame: what is left on the stream is the frames of the messages sent
\* after it, so the next call starts on the first byte of the next frame.
C18_FramingRoundTrip ==
    /\ [][(OnlySent /\ DecodeStep) =>
            /\ outbox # << >>
            /\ rresult'.tag = "dict"
            /\ ItemsOf(rresult'.msg) = ItemsOf(Head(outbox))
            /\ rconsumed' = Len(FrameOf(Head(outbox)))
            /\ wire' = FramesOf(Tail(outbox))]_vars
    /\ []((OnlySent /\ rpc = "idle") => wire = FramesOf(outbox))
\* Two frames were sent and the second, whose value holds a non-ASCII character
\* and a backslash, has been received as sent.
C18_Witness ==
    /\ OnlySent
    /\ nsends = 2
    /\ sok
    /\ rpc = "idle"
    /\ outbox = << >>
    /\ wire = << >>
    /\ smsg = <<[key |-> << >>, value |-> StrVal(<<233, 92>>)]>>
    /\ rresult.tag = "dict"
    /\ ItemsOf(rresult.msg) = ItemsOf(smsg)
    /\ rconsumed = Len(FrameOf(smsg))

\* The length of the payload send_message builds for message_dict.
EncodedSize(message_dict) == Len(utf8_encode(json_dumps(message_dict)))

\* C19: a send_message call on an open stream whose payload is longer than
\* MAX_MESSAGE_SIZE (or than the length field can hold) returns False and
\* leaves the stream as it was; a payload of at most MAX_MESSAGE_SIZE bytes,
\* exactly MAX_MESSAGE_SIZE included, is written whole after its prefix.
C19_SendRejectsOversize ==
    [][(nsends' # nsends /\ ~wclosed) =>
          IF EncodedSize(smsg') > MAX_MESSAGE_SIZE \/ exceeds_uint32(EncodedSize(smsg'))
            THEN sok' = FALSE /\ wire' = wire
            ELSE sok' = TRUE /\ wire' = wire \o FrameOf(smsg')]_vars
\* A message of exactly MAX_MESSAGE_SIZE bytes was sent, then a longer one was
\* refused, and the stream holds the first frame and nothing else.
C19_Witness ==
    /\ nsends = 2
    /\ nraw = 0
    /\ ~wclosed
    /\ ~sok
    /\ EncodedSize(smsg) > MAX_MESSAGE_SIZE
    /\ Len(outbox) = 1
    /\ EncodedSize(outbox[1]) = MAX_MESSAGE_SIZE
    /\ wire = FrameOf(outbox[1])

\* C20: when the four prefix bytes declare a length above MAX_MESSAGE_SIZE,
\* the next step of receive_message is to return None: it has taken exactly
\* the LENGTH_PREFIX_SIZE prefix bytes off the stream and takes no more.
C20_ReceiveRejectsOversizeLength ==
    /\ [][(/\ rpc = "prefix"
           /\ Len(rdata) = LENGTH_PREFIX_SIZE
           /\ struct_unpack(rdata) > MAX_MESSAGE_SIZE
           /\ rpc' # rpc) =>
            /\ rpc' = "idle"
            /\ rresult' = [tag |-> "none"]
            /\ rconsumed' = LENGTH_PREFIX_SIZE
            /\ wire' = wire]_vars
    /\ []((rpc = "idle" /\ rlen > MAX_MESSAGE_SIZE) =>
            (rresult = [tag |-> "none"] /\ rconsumed = LENGTH_PREFIX_SIZE))
\* A prefix declaring MAX_MESSAGE_SIZE + 1 was refused and the two bytes that
\* followed it are still on the stream.
C20_Witness ==
    /\ rpc = "idle"
    /\ rlen = MAX_MESSAGE_SIZE + 1
    /\ rresult = [tag |-> "none"]
    /\ rconsumed = LENGTH_PREFIX_SIZE
    /\ wire = <<123, 125>>


\* receive_message over a stream that hands over the bytes b in full, every
\* sock.recv returning all that was asked for, and ends after them.
ReceiveAtOnce(b) ==
    IF Len(b) < LENGTH_PREFIX_SIZE THEN [tag |-> "none"]
    ELSE LET message_length == struct_unpack(SubSeq(b, 1, LENGTH_PREFIX_SIZE)) IN
         IF receive_rejects(message_length) THEN [tag |-> "none"]
         ELSE IF Len(b) < LENGTH_PREFIX_SIZE + message_length THEN [tag |-> "none"]
         ELSE LET json_str ==
                    utf8_decode(SubSeq(b, LENGTH_PREFIX_SIZE + 1,
                                       LENGTH_PREFIX_SIZE + message_length)) IN
              IF json_str.ok THEN json_loads(json_str.value) ELSE [tag |-> "none"]

\* C21: partial-read robustness.  However sock.recv cuts the stream into
\* chunks, recv_exactly holds exactly the bytes taken for the part it is
\* reading, in order, and what receive_message returns is what it returns
\* when the same bytes arrive in one piece.
C21_PartialReadRobust ==
    /\ rpc = "prefix" => rdata = rtaken
    /\ rpc = "body" => rtaken = struct_pack(rneed) \o rdata
    /\ (rpc = "idle" /\ rresult # NoMessage) => rresult = ReceiveAtOnce(rtaken)
\* A frame of the largest size was received one byte per recv, twenty recv
\* calls in all, and decoded to the mapping that was sent.
C21_Witness ==
    /\ rpc = "idle"
    /\ rbytewise
    /\ Len(rtaken) = LENGTH_PREFIX_SIZE + MAX_MESSAGE_SIZE
    /\ rresult.tag = "dict"
    /\ ItemsOf(rresult.msg) = ItemsOf(smsg)


\* C22: whatever bytes the peer writes, the value receive_message returns is
\* a mapping or None.
C22_ReceiveMappingOrFailure ==
    (rpc = "idle" /\ rresult # NoMessage) => rresult.tag \in {"dict", "none"}


\* The connect attempts so far all ended in a refused connection or another
\* OSError.
OnlyTransient ==
    \A i \in 1..Len(koutcomes) : koutcomes[i] \in {"refused", "os_error"}

\* C23: connect_to_server makes at most MAX_CONNECTION_RETRIES + 1 attempts;
\* the k-th retry comes after a sleep of CONNECTION_RETRY_DELAY * 2^(k-1)
\* seconds; when every attempt was refused or hit another OSError it returns
\* None after exactly MAX_CONNECTION_RETRIES + 1 attempts and
\* MAX_CONNECTION_RETRIES sleeps; an attempt that succeeds is the last one.
C23_ConnectRetryBounded ==
    /\ Len(koutcomes) <= MAX_CONNECTION_RETRIES + 1
    /\ Len(ksleeps) <= MAX_CONNECTION_RETRIES
    /\ \A k \in 1..Len(ksleeps) : ksleeps[k] = CONNECTION_RETRY_DELAY * (2 ^ (k - 1))
    /\ kpc = "attempt" => Len(ksleeps) = Len(koutcomes)
    /\ (kentry = "main" /\ kpc = "exit" /\ OnlyTransient) =>
            /\ Len(koutcomes) = MAX_CONNECTION_RETRIES + 1
            /\ Len(ksleeps) = MAX_CONNECTION_RETRIES
            /\ ksock = None
    /\ \A i \in 1..Len(koutcomes) :
            koutcomes[i] = "ok" => (i = Len(koutcomes) /\ ksock = "socket" /\ Len(ksleeps) = i - 1)
\* Four attempts failed, with sleeps of 2, 4 and 8 seconds between them, and
\* connect_to_server returned None.
C23_Witness ==
    /\ kpc = "exit"
    /\ koutcomes = <<"refused", "os_error", "refused", "refused">>
    /\ ksleeps = <<2, 4, 8>>
    /\ ksock = None

\* C24: an attempt that ends in socket.gaierror or ssl.SSLError is the last
\* one: connect_to_server returns None at once, without a sleep after it.
C24_PermanentErrorsNotRetried ==
    \A i \in 1..Len(koutcomes) :
        koutcomes[i] \in {"ssl_error", "gaierror"} =>
            /\ i = Len(koutcomes)
            /\ kpc = "exit"
            /\ ksock = None
            /\ Len(ksleeps) = i - 1
\* The second attempt, made after one refused connection and one sleep, failed
\* in the TLS handshake and the client gave up.
C24_Witness ==
    /\ koutcomes = <<"refused", "ssl_error">>
    /\ ksleeps = <<2>>
    /\ kpc = "exit"
    /\ ksock = None

\* The number of Result messages the client has sent.
ResultsSent == Len(SelectSeq(kout, LAMBDA type : type = "result"))

\* C25: with the connection up, when main_loop is about to read the next
\* message it has sent one Result for every Command message it has received.
C25_OneResultPerCommand ==
    (kpc = "main_recv" /\ ~kinclosed) => ResultsSent = kcmds

\* C26: once main has connected and gone past send_registration on a
\* connection that is still up, the first message the client sent is a
\* Registration.
C26_RegistrationFirst ==
    (kentry = "main" /\ ksock = "socket" /\ kpc # "register" /\ ~kinclosed) =>
        (kout # << >> /\ kout[1] = "registration")

\* C28: session_id is globally unique: no two calls of generate_session_id over
\* the whole run, calls within the same second included, return the same value.
C28_SessionIdUnique ==
    \A i, j \in 1..Len(issued) : i # j => issued[i] # issued[j]

\* The outcomes of a TLS handshake that failed.
HandshakeFailures == {"ssl_error", "os_error"}

\* C29: a failed server-side TLS handshake, whatever the failure, closes that
\* one accepted connection, starts no handler for it (then or later), changes
\* no registry entry, no session and no other connection, and leaves the
\* listener at the top of its accept loop.
C29_HandshakeFailureContained ==
    /\ [][(lpc = "wrap" /\ lpc' # "wrap" /\ hs[lconn] \in HandshakeFailures) =>
             /\ sock'[lconn] = "closed"
             /\ \A h \in Handlers \ {lconn} : sock'[h] = sock[h]
             /\ hpc' = hpc
             /\ sessions' = sessions
             /\ sess' = sess
             /\ command_queue' = command_queue
             /\ lpc' = "loop"]_vars
    /\ [](\A h \in Handlers :
             hs[h] \in HandshakeFailures =>
                 (hpc[h] = "none" /\ (lconn # h => sock[h] = "closed")))

\* A handshake that failed below the TLS level has been dealt with while
\* another client is registered: its connection is closed, it has no handler,
\* and the listener is back in its loop.
C29_Witness ==
    \E h \in Handlers :
        /\ hs[h] = "os_error"
        /\ sock[h] = "closed"
        /\ hpc[h] = "none"
        /\ lconn # h
        /\ lpc \in {"loop", "check", "accept"}
        /\ DOMAIN sessions # {}

\* The well-formed replies whose type is not 'result'.
UnexpectedReplies ==
    {frame \in PeerFrames : frame.kind = "dict" /\ msg_get(frame.msg, "type") # "result"}

\* C30: in the command loop, a well-formed reply whose type is not 'result'
\* takes the branch that logs a warning and continues: the step publishes
\* nothing, leaves last_activity, connected and the rest of the session, the
\* registry, the queue and the socket as they were, and puts the handler back
\* at the top of its loop, where it waits for the next queued command.
C30_UnexpectedReplyContinues ==
    /\ [](\A frame \in UnexpectedReplies : reply_action(frame) = "continue")
    /\ [][\A h \in Handlers : \A frame \in UnexpectedReplies :
            HandlerRecv(h, frame) =>
                /\ npub'[h] = npub[h]
                /\ sess'[h] = sess[h]
                /\ sessions' = sessions
                /\ command_queue'[h] = command_queue[h]
                /\ sock'[h] = sock[h]
                /\ cleanups'[h] = cleanups[h]
                /\ hpc'[h] = "loop"]_vars

\* A handler back at the top of its loop after a Result it published and a
\* reply of another type it skipped: the session is registered and connected
\* and last_activity is that of the one Result.
C30_Witness ==
    \E h \in Handlers :
        /\ hpc[h] = "loop"
        /\ nreply[h] = 2
        /\ npub[h] = 1
        /\ sess[h].exists
        /\ sess[h].connected
        /\ sess[h].last_activity = 1
        /\ get_session(sessions, sess[h].client_id) = h

\* A frame that receive_message discards: an oversize declared length or a
\* payload that is not UTF-8 or not JSON.
Undecodable(frame) == frame.kind = "garbage"
\* A well-formed message whose type is not the one the handler waits for.
WrongType(message, expected) ==
    message.tag = "dict" /\ msg_get(message.msg, "type") # expected
\* The step of handle_registration after its receive, on a message that was
\* discarded or has the wrong type goes to the cleanup with no Session.
RegistrationErrorTerminates(h) ==
    (/\ hpc[h] = "reg_check"
     /\ StepOf(h)
     /\ (reg_message[h].tag = "none" \/ WrongType(reg_message[h], "registration")))
    => (hpc'[h] = "fin_mark" /\ sess'[h] = NoSession /\ sessions' = sessions)
\* The receive of the command loop on a frame that is discarded goes to the
\* cleanup and publishes nothing.
UndecodableReplyTerminates(h) ==
    \A frame \in PeerFrames :
        (Undecodable(frame) /\ HandlerRecv(h, frame)) =>
            (hpc'[h] = "fin_mark" /\ npub'[h] = npub[h] /\ sess'[h] = sess[h])
\* A handler in its cleanup stays in it, can always take its next step, and at
\* its end its session is out of the registry with connected = false.
CleanupCompletes ==
    /\ [][\A h \in Handlers : Terminating(h) => Terminating(h)']_vars
    /\ [](\A h \in Handlers :
            /\ (Running /\ hpc[h] \in {"fin_mark", "fin_remove", "fin_close"})
                  => ENABLED Handler(h)
            /\ hpc[h] = "done" => (~Registered(h) /\ ~sess[h].connected))

\* C27 as stated: a frame with an oversize declared length or malformed
\* UTF-8/JSON, or a message of the wrong type for the handler's state, received
\* in any state, sends the handler to its cleanup: a discarded message or a
\* type other than 'registration' while the Registration is awaited, a
\* discarded frame or a type other than 'result' in the command loop.
C27_ProtocolErrorsTerminate ==
    [][\A h \in Handlers :
         /\ RegistrationErrorTerminates(h)
         /\ UndecodableReplyTerminates(h)
         /\ \A frame \in PeerFrames :
               (WrongType(receive_message(frame), "result") /\ HandlerRecv(h, frame)) =>
                   hpc'[h] = "fin_mark"]_vars

\* C27 as amended: a frame with an oversize declared length or malformed
\* UTF-8/JSON received in any state, and a message of a type other than
\* 'registration' received while the Registration is awaited, is discarded and
\* sends the handler to its cleanup, which runs to its end and leaves the
\* session out of the registry.  (A well-formed reply of a type other than
\* 'result' in the command loop does not: it is the subject of C30.)
C27_DecodeErrorsTerminate ==
    /\ [][\A h \in Handlers :
            RegistrationErrorTerminates(h) /\ UndecodableReplyTerminates(h)]_vars
    /\ CleanupCompletes

\* C27 witness: a handler has left the command loop for its cleanup from the
\* receive of a reply, on a connection that is open on both sides and with no
\* shutdown under way, while its session is still registered and connected.
C27_Witness ==
    \E h \in Handlers :
        /\ hpc[h] = "fin_mark"
        /\ nsent[h] = nreply[h] + 1
        /\ sock[h] = "open" /\ ~peerClosed[h] /\ ~shutdown
        /\ sess[h].exists /\ sess[h].connected /\ Registered(h)

\* The replies the command loop takes for a Result: mappings of type 'result'.
ResultReplies ==
    {frame \in PeerFrames : frame.kind = "dict" /\ msg_get(frame.msg, "type") = "result"}

C32_ActiveSessionIsLookedUp ==
    \A h \in Handlers :
        (Active(h) /\ sess[h].connected) => get_session(sessions, sess[h].client_id) = h

\* C33: a Command is sent on a connection only by a handler in its command
\* loop, and a handler enters its command loop only through the insert that
\* put its Session into the registry, the Session having been constructed from
\* a valid Registration received on the connection; a handler whose insert was
\* rejected goes to its cleanup and, like every handler in its cleanup, sends
\* nothing.
C33_NoCommandBeforeRegistered ==
    /\ [](\A h \in Handlers : (nsent[h] > 0 \/ Active(h)) => sess[h].exists)
    /\ [][\A h \in Handlers :
            /\ nsent'[h] # nsent[h] =>
                  (hpc[h] = "send" /\ sess[h].exists /\ sess[h].client_id \in ClientIds)
            /\ (~sess[h].exists /\ sess'[h].exists) =>
                  /\ hpc[h] = "reg_check" /\ hpc'[h] = "add"
                  /\ WellFormedRegistration(reg_message[h])
                  /\ sess'[h].client_id = reg_message[h].msg.client_id
                  /\ nsent[h] = 0
            /\ (Active(h)' /\ ~Active(h)) =>
                  /\ hpc[h] = "add"
                  /\ get_session(sessions, sess[h].client_id) = NoHandler
                  /\ get_session(sessions', sess[h].client_id) = h
                  /\ nsent[h] = 0
            /\ (hpc[h] = "add" /\ StepOf(h)
                  /\ get_session(sessions, sess[h].client_id) # NoHandler) =>
                  (hpc'[h] = "fin_mark" /\ sessions' = sessions /\ nsent[h] = 0)
            /\ (Terminating(h) /\ ~Terminating(h)') => FALSE
            /\ Terminating(h) => nsent'[h] = nsent[h]]_vars

\* C33 witness: one handler has sent a Command on its registered session while
\* another, whose insert was rejected, has finished without sending any.
C33_Witness ==
    \E h, g \in Handlers :
        /\ nsent[h] = 1 /\ sess[h].exists
        /\ hpc[g] = "done" /\ sess[g].exists /\ nsent[g] = 0
        /\ sess[g].client_id = sess[h].client_id

\* The step writes the queue of handler h's session as its owning handler does:
\* the construction of the Session makes the queue, the queue wait takes its
\* first item.
OwnerQueueStep(h) ==
    /\ StepOf(h)
    /\ \/ hpc[h] = "reg_check" /\ command_queue'[h] = << >>
       \/ hpc[h] = "get" /\ command_queue[h] # << >>
            /\ command_queue'[h] = Tail(command_queue[h])
\* The step is the operator's put on handler h's session: one command is
\* appended and nothing is taken.
OperatorEnqueueStep(h) ==
    /\ mpc = "put" /\ mpc' = "operator" /\ osession = h
    /\ Len(command_queue'[h]) = Len(command_queue[h]) + 1
    /\ SubSeq(command_queue'[h], 1, Len(command_queue[h])) = command_queue[h]
\* The step is main's shutdown loop closing handler h's registered session:
\* it clears connected and closes the socket.
ShutdownCloseStep(h) ==
    /\ mpc = "close" /\ shutdown
    /\ \E k \in client_ids : get_session(sessions, k) = h
    /\ ~sess'[h].connected
    /\ sock'[h] = "closed"

\* C34 as stated: a session's connected flag and last_activity are written only
\* by steps of its owning handler, and its command queue only by its owning
\* handler (which consumes) and the operator's put (which appends).
C34_SessionWrittenByOwnerAndOperator ==
    [][\A h \in Handlers :
         /\ sess'[h].connected # sess[h].connected => StepOf(h)
         /\ sess'[h].last_activity # sess[h].last_activity => StepOf(h)
         /\ command_queue'[h] # command_queue[h] =>
               (OwnerQueueStep(h) \/ OperatorEnqueueStep(h))]_vars

\* C34 as amended: a session's last_activity is written only by its owning
\* handler; its command queue only by its owning handler (which makes it and
\* consumes from it) and by the operator's put (which appends one command and
\* takes nothing); its connected flag only by its owning handler and by main's
\* shutdown loop, which clears it on the sessions it finds in the registry
\* after the shutdown signal, when it closes their connections.
C34_SessionWrittenByOwnerOperatorShutdown ==
    [][\A h \in Handlers :
         /\ sess'[h].connected # sess[h].connected =>
               (StepOf(h) \/ ShutdownCloseStep(h))
         /\ sess'[h].last_activity # sess[h].last_activity => StepOf(h)
         /\ sess'[h] # sess[h] =>
               (sess'[h].session_id = session_id[h]
                /\ (sess[h].exists => [sess'[h] EXCEPT !.connected = sess[h].connected,
                                                        !.last_activity = sess[h].last_activity]
                                       = sess[h]))
         /\ command_queue'[h] # command_queue[h] =>
               (OwnerQueueStep(h) \/ OperatorEnqueueStep(h))]_vars

\* C34 witness: main's shutdown loop has cleared connected on a session that
\* the operator had enqueued a command on, and its handler, still in its
\* command loop, has not yet seen it.
C34_Witness ==
    \E h \in Handlers :
        /\ mpc = "close"
        /\ Active(h) /\ sess[h].exists /\ ~sess[h].connected
        /\ sock[h] = "closed"
        /\ nenq[h] >= 1
        /\ cleanups[h] = 0

\* recv_exactly is in its loop with fewer bytes than it was asked for.
ReadingShort == rpc \in {"prefix", "body"} /\ Len(rdata) < rneed

\* C35: recv_exactly returns exactly the bytes asked for or None, never fewer
\* and never more.  receive_message goes on from the prefix only with
\* LENGTH_PREFIX_SIZE bytes and from the body only with the declared number;
\* when the stream ends, or recv raises a timeout or a connection error, with
\* fewer bytes accumulated (before the prefix is complete or in the middle of
\* the body), the read ends and receive_message returns None; and a value is
\* returned only after the prefix and the whole declared body were read.
C35_RecvExactlyAllOrNothing ==
    /\ [](Len(rdata) <= rneed)
    /\ []((rpc \in {"idle", "failed"} /\ rresult # NoMessage /\ rresult.tag # "none") =>
             (Len(rdata) = rlen /\ rconsumed = LENGTH_PREFIX_SIZE + rlen))
    /\ [][/\ (ReadingShort /\ rpc' # rpc) =>
                (rpc' \in {"idle", "failed"} /\ rresult' = [tag |-> "none"]
                 /\ rdata' = rdata /\ wire' = wire)
          /\ (ReadingShort /\ wire = << >> /\ wclosed) =>
                (rdata' = rdata /\ rpc' \in {rpc, "idle", "failed"})
          /\ (rpc = "prefix" /\ rpc' = "body") =>
                (Len(rdata) = LENGTH_PREFIX_SIZE /\ rneed' = struct_unpack(rdata))
          /\ (rpc = "body" /\ rpc' # "body" /\ rresult'.tag # "none") =>
                Len(rdata) = rlen]_vars

\* C35 witness: the stream ended in the middle of a body (one byte of the two
\* declared had been read) and receive_message returned None.
C35_Witness ==
    /\ rpc = "idle"
    /\ rresult = [tag |-> "none"]
    /\ rlen = 2 /\ rdata = <<55>>
    /\ rconsumed = LENGTH_PREFIX_SIZE + 1
    /\ wclosed /\ wire = << >>

\* C36: a call of add_session returns False and leaves the registry as it was
\* exactly when the session's client_id is a key at the time of the call's
\* store statement; otherwise it returns True, the session is stored under its
\* client_id and every other entry is left as it was.  Every entry is
\* therefore keyed by its session's client_id, and no two entries hold
\* sessions with the same client_id, whatever the interleaving of the calls.
C36_AddSessionRejectsDuplicates ==
    /\ [](\A k \in DOMAIN sessions : objs[sessions[k]].client_id = k)
    /\ [](\A k1, k2 \in DOMAIN sessions :
             objs[sessions[k1]].client_id = objs[sessions[k2]].client_id => k1 = k2)
    /\ [][\A t \in Threads :
            (tpc[t] = "add_store" /\ tpc'[t] = "release") =>
               LET client_id == objs[t].client_id IN
               IF client_id \in DOMAIN sessions
                  THEN /\ tret'[t] = [op |-> "add_session", value |-> FALSE]
                       /\ sessions' = sessions
                  ELSE /\ tret'[t] = [op |-> "add_session", value |-> TRUE]
                       /\ DOMAIN sessions' = DOMAIN sessions \cup {client_id}
                       /\ sessions'[client_id] = t
                       /\ \A k \in DOMAIN sessions : sessions'[k] = sessions[k]]_vars

\* C36 witness: of two sessions with the same client_id one was added and the
\* other refused, and the registry holds the first.
C36_Witness ==
    \E t1, t2 \in Threads :
        /\ t1 # t2
        /\ objs[t1].client_id = objs[t2].client_id
        /\ added[t1] = "accepted" /\ added[t2] = "rejected"
        /\ tpc[t1] = "idle" /\ tpc[t2] = "idle"
        /\ get_session(sessions, objs[t1].client_id) = t1

\* C37: in every reachable state the number of sessions in the registry is at
\* most MAX_CLIENTS.
C37_RegistryWithinMaxClients ==
    get_session_count(sessions) <= MAX_CLIENTS

\* C38: a command the operator enqueues on a session it found connected is
\* never silently lost.  A handler that has finished neither sends nor
\* reports anything more, so the claim requires this much: the operator's put
\* never lands on the queue of a session whose handler has already finished.
C38_EnqueuedCommandNotLost ==
    [][\A h \in Handlers : OperatorEnqueueStep(h) => hpc[h] # "done"]_vars

\* The received message without its auth_token field.
WithoutAuthToken(message) ==
    IF message.tag = "dict"
       THEN [tag |-> "dict",
             msg |-> [k \in DOMAIN message.msg \ {"auth_token"} |-> message.msg[k]]]
       ELSE message
\* The received message with its auth_token field set to a value.
WithAuthToken(message, auth_token) ==
    IF message.tag = "dict"
       THEN [tag |-> "dict",
             msg |-> [k \in DOMAIN message.msg \cup {"auth_token"} |->
                        IF k = "auth_token" THEN auth_token ELSE message.msg[k]]]
       ELSE message
\* The messages that differ from `message` in the auth_token field at most:
\* the field absent, or present with each value.
AuthTokenVariants(message) ==
    {WithoutAuthToken(message)} \cup {WithAuthToken(message, t) : t \in AuthTokens}

\* C39: the admission outcome of a registration does not depend on its
\* auth_token.  The step the handler takes on a received registration is the
\* step it takes on every message that differs from it in the auth_token field
\* only (absent, or present with any value): the same next position, the same
\* Session or none, and the registry unchanged.
C39_AdmissionIgnoresAuthToken ==
    [][\A h \in Handlers :
          (hpc[h] = "reg_check" /\ StepOf(h)) =>
             \A variant \in AuthTokenVariants(reg_message[h]) :
                LET client_id == handle_registration(variant) IN
                /\ sessions' = sessions
                /\ IF client_id = None
                      THEN hpc'[h] = "fin_mark" /\ sess'[h] = sess[h]
                      ELSE /\ hpc'[h] = "add"
                           /\ sess'[h] = [exists |-> TRUE, session_id |-> session_id[h],
                                          client_id |-> client_id, connected |-> TRUE,
                                          last_activity |-> 0]]_vars

\* C39 witness: a handler is about to decide on a registration that carries a
\* client_id and the auth_token "token-b".
C39_Witness ==
    \E h \in Handlers :
        /\ hpc[h] = "reg_check"
        /\ reg_message[h].tag = "dict"
        /\ msg_get(reg_message[h].msg, "auth_token") = "token-b"
        /\ msg_get(reg_message[h].msg, "client_id") = "HOST-a"
        /\ ENABLED HandlerRegister(h)

====
